---- MODULE Spec2Model ----
(***************************************************************************)
(* A model of src/main.py: the ledger (a remote sheet), the TTL cache over  *)
(* it, the per-user context store with its durable file, the last-operation *)
(* table, and the chat handlers that drive them.                            *)
(*                                                                          *)
(* Every remote call of the source is synchronous (gspread, the NLU client, *)
(* the file write), so a handler's state changes happen in one step; the    *)
(* only suspension points are the chat replies, which touch no shared state.*)
(* Russian string literals of the source are written in Latin letters.      *)
(***************************************************************************)
EXTENDS Integers, Sequences, FiniteSets, TLC

VARIABLES
    phase,                 \* "boot" | "serving" | "exited": the process's position
    ledger,                \* the remote sheet: a sequence of rows, row 1 first
    SHEETS_CACHE,          \* <<>> for None, <<records>> for a held snapshot
    CACHE_TIMESTAMP,       \* <<>> for None, <<t>> for a held timestamp
    now,                   \* datetime.now(), in minutes
    today,                 \* the day in the business timezone, a day number
    USER_CONTEXT,          \* user id -> recent_operations list
    contextFile,           \* user_context.json: [state, data]
    USER_LAST_OPERATIONS,  \* user id -> [type, data, row, timestamp]
    keyboards,             \* the inline keyboards the chat holds
    appended,              \* rows this process appended so far (saturating)
    out,                   \* what the last handler did: [reply, fetches, nlu]
    tasks,                 \* user id -> the handle_message coroutine in flight for them
    arg,                   \* a pure function under evaluation: <<>> or <<its argument>>
    res                    \*   and <<>> or <<its result>>

vars == <<phase, ledger, SHEETS_CACHE, CACHE_TIMESTAMP, now, today, USER_CONTEXT,
          contextFile, USER_LAST_OPERATIONS, keyboards, appended, out, tasks, arg, res>>

-----------------------------------------------------------------------------
(* Bounds of the model *)

MaxTime == 6        \* the clock runs from 0 to MaxTime minutes
MaxDay == 2         \* business days 1..MaxDay
MaxAppends == 1     \* rows appended in one run of the full-surface specification
MaxRows == 1        \* data rows the sheet holds in the long-run specification
MaxTokens == 3      \* tokens of a search query
MaxMatches == 17    \* rows of the sheet a search is reported on

(* Program constants *)

CACHE_TIMEOUT == 5          \* timedelta(minutes=5)
CONTEXT_LIMIT == 10         \* "only the last 10 operations"
DISPLAY_LIMIT == 15   \* found_records.head(15)
STOP_AFTER_ATTEMPT == 3   \* @retry(stop=stop_after_attempt(3), ...)
DayLen == 48       \* instants are counted in half hours: timedelta(days=1)
MSK_OFFSET == 6    \* MOSCOW_TZ.localize: UTC+03:00
LMT_OFFSET == 5    \* tzinfo=MOSCOW_TZ in datetime(...): the zone's first entry, LMT+02:30
WEEK_DAYS == 7     \* timedelta(days=7)
MONTH_DAYS == 30   \* timedelta(days=30)
CONFIDENCE_THRESHOLD == 7   \* 0.7, confidences are in tenths

-----------------------------------------------------------------------------
(* Values *)

None == <<>>
Some(x) == <<x>>

Users == {"u1", "u2", "u3"}
ALLOWED_USERS == {"u1", "u2"}

HEADER == <<"Data", "Tip operacii", "Kategoriya", "Opisanie/Poluchatel", "Summa", "Kommentariy">>

\* strftime('%d.%m.%Y') of the business day
DateStr(d) == CASE d = 1 -> "01.11.2026"
                [] d = 2 -> "02.11.2026"
                [] d = 3 -> "03.11.2026"
                [] OTHER -> "04.11.2026"

format_moscow_date == DateStr(today)

\* What the NLU capability may answer (after json.loads)
FinSalary == [type |-> "finance", operation_type |-> "Rashod", amount |-> -40000,
              category |-> "Zarplaty sotrudnikam", description |-> "Petrov",
              confidence |-> 9]
FinInflow == [type |-> "finance", operation_type |-> "Popolnenie", amount |-> 30000,
              category |-> "-", description |-> "Tanya", comment |-> "lichno",
              confidence |-> 7]
FinUnsure == [type |-> "finance", operation_type |-> "Rashod", amount |-> -40000,
              category |-> "Zarplaty sotrudnikam", description |-> "Petrov",
              confidence |-> 5]
Clarify == [type |-> "clarification", message |-> "utochnite", suggestions |-> <<>>]

NluAnswers == {FinSalary, FinInflow, FinUnsure, Clarify}

\* the answer the prompt asks for to "oplata postavschiku Shamilyu 10000"
FinSupplier == [type |-> "finance", operation_type |-> "Rashod", amount |-> -10000,
                category |-> "Oplata postavschiku", description |-> "Shamil",
                confidence |-> 9]

Has(d, k) == k \in DOMAIN d
\* dict.get(key, default)
Get(d, k, default) == IF Has(d, k) THEN d[k] ELSE default

-----------------------------------------------------------------------------
(* The shared state a handler works on, as one record *)

State == [led |-> ledger, cache |-> SHEETS_CACHE, ts |-> CACHE_TIMESTAMP,
          ctx |-> USER_CONTEXT, file |-> contextFile, last |-> USER_LAST_OPERATIONS,
          kb |-> keyboards, fetches |-> 0, nlu |-> 0]

\* The external calls that may raise during one handler run
Faults == {"none", "append_row", "get_all_records", "get_all_values", "delete_rows",
           "update_cells", "save_context", "nlu", "transcribe"}

-----------------------------------------------------------------------------
(* Ledger cache *)

\* finance_sheet.get_all_records(): row 1 is the header, the rest are the records
get_all_records(led) == IF Len(led) <= 1 THEN <<>> ELSE Tail(led)

\* CacheMiss with "not SHEETS_CACHE" in place of "SHEETS_CACHE is None": an empty
\* snapshot counts as no snapshot
CacheMiss_falsy(s) ==
    s.cache = None \/ s.cache[1] = <<>> \/ s.ts = None \/ now - s.ts[1] > CACHE_TIMEOUT

\* CacheMiss with ">=" in place of ">"
CacheMiss_atTimeout(s) == s.cache = None \/ s.ts = None \/ now - s.ts[1] >= CACHE_TIMEOUT

\* whether get_cached_records() takes the refresh branch
CacheMiss(s) == s.cache = None \/ s.ts = None \/ now - s.ts[1] > CACHE_TIMEOUT

\* get_cached_records(): [ok, s]; the snapshot returned is s.cache[1]
get_cached_records(s, f) ==
    IF CacheMiss(s)
    THEN IF f = "get_all_records"
         THEN [ok |-> FALSE, s |-> [s EXCEPT !.fetches = @ + 1]]
         ELSE [ok |-> TRUE,
               s |-> [s EXCEPT !.cache = Some(get_all_records(s.led)),
                               !.ts = Some(now),
                               !.fetches = @ + 1]]
    ELSE [ok |-> TRUE, s |-> s]

\* invalidate_cache without its two assignments
invalidate_cache_noop(s) == s

invalidate_cache(s) == [s EXCEPT !.cache = None, !.ts = None]

-----------------------------------------------------------------------------
(* Context store *)

EmptyStore == [u \in {} |-> <<>>]

\* the rendered line "<description>: <amount> RUB (<category>)"
ContextLine(data) == <<data.description, data.amount, data.category>>

\* list[-n:]
LastN(list, n) == IF Len(list) > n THEN SubSeq(list, Len(list) - n + 1, Len(list)) ELSE list

\* load_context(): the store after it, ctx being the store before
load_context(file, ctx) == IF file.state = "ok" THEN file.data ELSE ctx

\* save_context(): [ok, file]; a failing open() leaves the file as it was
save_context(ctx, file, f) ==
    IF f = "save_context"
    THEN [ok |-> FALSE, file |-> file]
    ELSE [ok |-> TRUE, file |-> [state |-> "ok", data |-> ctx]]

\* update_user_context with list[:10] in place of list[-10:]
update_user_context_keepFirst(s, user_id, operation_data, f) ==
    LET ctx0 == IF user_id \notin DOMAIN s.ctx
                THEN [u \in DOMAIN s.ctx \cup {user_id} |->
                         IF u = user_id THEN <<>> ELSE s.ctx[u]]
                ELSE s.ctx
        appendedList == Append(ctx0[user_id], ContextLine(operation_data.data))
        kept == IF Len(appendedList) > CONTEXT_LIMIT
                THEN SubSeq(appendedList, 1, CONTEXT_LIMIT)
                ELSE appendedList
        ctx1 == [ctx0 EXCEPT ![user_id] = kept]
        saved == save_context(ctx1, s.file, f)
    IN  [ok |-> saved.ok, s |-> [s EXCEPT !.ctx = ctx1, !.file = saved.file]]

\* update_user_context without the truncation
update_user_context_noTrim(s, user_id, operation_data, f) ==
    LET ctx0 == IF user_id \notin DOMAIN s.ctx
                THEN [u \in DOMAIN s.ctx \cup {user_id} |->
                         IF u = user_id THEN <<>> ELSE s.ctx[u]]
                ELSE s.ctx
        ctx1 == [ctx0 EXCEPT ![user_id] = Append(@, ContextLine(operation_data.data))]
        saved == save_context(ctx1, s.file, f)
    IN  [ok |-> saved.ok, s |-> [s EXCEPT !.ctx = ctx1, !.file = saved.file]]

\* update_user_context that writes only the acting user's list to the file
update_user_context_saveOwn(s, user_id, operation_data, f) ==
    LET ctx0 == IF user_id \notin DOMAIN s.ctx
                THEN [u \in DOMAIN s.ctx \cup {user_id} |->
                         IF u = user_id THEN <<>> ELSE s.ctx[u]]
                ELSE s.ctx
        ctx1 == [ctx0 EXCEPT ![user_id] =
                    LastN(Append(@, ContextLine(operation_data.data)), CONTEXT_LIMIT)]
        saved == save_context([u \in {user_id} |-> ctx1[u]], s.file, f)
    IN  [ok |-> saved.ok, s |-> [s EXCEPT !.ctx = ctx1, !.file = saved.file]]

\* update_user_context(user_id, operation_data): [ok, s]
update_user_context(s, user_id, operation_data, f) ==
    LET ctx0 == IF user_id \notin DOMAIN s.ctx
                THEN [u \in DOMAIN s.ctx \cup {user_id} |->
                         IF u = user_id THEN <<>> ELSE s.ctx[u]]
                ELSE s.ctx
        context_line == ContextLine(operation_data.data)
        appendedList == Append(ctx0[user_id], context_line)
        kept == IF Len(appendedList) > CONTEXT_LIMIT
                THEN LastN(appendedList, CONTEXT_LIMIT)
                ELSE appendedList
        ctx1 == [ctx0 EXCEPT ![user_id] = kept]
        saved == save_context(ctx1, s.file, f)
    IN  [ok |-> saved.ok, s |-> [s EXCEPT !.ctx = ctx1, !.file = saved.file]]

-----------------------------------------------------------------------------
(* Ledger mutator *)

RequiredFields == {"operation_type", "category", "description", "amount"}

RowOf(data) == <<format_moscow_date, data.operation_type, data.category,
                 data.description, data.amount, Get(data, "comment", "")>>

SetLast(last, user_id, op) ==
    [u \in DOMAIN last \cup {user_id} |-> IF u = user_id THEN op ELSE last[u]]

\* add_finance_record with the context updated before the row is appended
add_finance_record_contextFirst(s, data, user_id, f) ==
    IF ~(RequiredFields \subseteq DOMAIN data)
    THEN [ok |-> FALSE, s |-> s]
    ELSE LET op == [type |-> "finance", data |-> data,
                    row |-> Len(get_all_records(s.led)) + 1, timestamp |-> today]
             upd == update_user_context(s, user_id, op, f)
         IN  IF f = "append_row" \/ ~upd.ok
             THEN [ok |-> FALSE, s |-> upd.s]
             ELSE LET s1 == invalidate_cache(
                               [upd.s EXCEPT !.led = Append(upd.s.led, RowOf(data))])
                      got == get_cached_records(s1, f)
                  IN  IF ~got.ok
                      THEN [ok |-> FALSE, s |-> got.s]
                      ELSE [ok |-> TRUE,
                            s |-> [got.s EXCEPT !.last = SetLast(got.s.last, user_id, op)]]

\* add_finance_record(data, user_id): [ok, s]
add_finance_record(s, data, user_id, f) ==
    IF ~(RequiredFields \subseteq DOMAIN data) \/ f = "append_row"
    THEN [ok |-> FALSE, s |-> s]
    ELSE LET s1 == invalidate_cache([s EXCEPT !.led = Append(s.led, RowOf(data))])
             got == get_cached_records(s1, f)
         IN  IF ~got.ok
             THEN [ok |-> FALSE, s |-> got.s]
             ELSE LET op == [type |-> "finance", data |-> data,
                             row |-> Len(got.s.cache[1]), timestamp |-> today]
                      s2 == [got.s EXCEPT !.last = SetLast(got.s.last, user_id, op)]
                  IN  update_user_context(s2, user_id, op, f)

\* worksheet.delete_rows(start, end): rows start..end (1-based, inclusive) go
delete_rows(led, start, end) ==
    IF start > Len(led) \/ end < start
    THEN led
    ELSE SubSeq(led, 1, start - 1) \o SubSeq(led, end + 1, Len(led))

\* delete_finance_record that also forgets the last operations stored with the
\* number of the row
delete_finance_record_forgetLast(s, row_number, f) ==
    IF f = "delete_rows"
    THEN [ok |-> FALSE, s |-> s]
    ELSE [ok |-> TRUE,
          s |-> invalidate_cache(
                  [s EXCEPT !.led = delete_rows(s.led, row_number, row_number),
                            !.last = [u \in {v \in DOMAIN s.last : s.last[v].row + 1 # row_number}
                                        |-> s.last[u]]])]

\* delete_finance_record(row_number): [ok, s]
delete_finance_record(s, row_number, f) ==
    IF f = "delete_rows"
    THEN [ok |-> FALSE, s |-> s]
    ELSE [ok |-> TRUE,
          s |-> invalidate_cache([s EXCEPT !.led = delete_rows(s.led, row_number, row_number)])]

\* edit_finance_record(row_number, data): [ok, s]; the six cells of the row are
\* overwritten
edit_finance_record(s, row_number, data, f) ==
    IF ~((RequiredFields \ {"amount"}) \subseteq DOMAIN data /\ "amount" \in DOMAIN data)
          \/ f = "update_cells"
    THEN [ok |-> FALSE, s |-> s]
    ELSE LET cells == <<Get(data, "date", format_moscow_date), data.operation_type,
                        data.category, data.description, data.amount,
                        Get(data, "comment", "")>>
         IN  [ok |-> TRUE,
              s |-> invalidate_cache([s EXCEPT !.led = [@ EXCEPT ![row_number] = cells]])]

\* clear_table(): [ok, s]
clear_table(s, f) ==
    IF f = "get_all_values"
    THEN [ok |-> FALSE, s |-> s]
    ELSE LET records == s.led
         IN  IF Len(records) > 1
             THEN IF f = "delete_rows"
                  THEN [ok |-> FALSE, s |-> s]
                  ELSE [ok |-> TRUE,
                        s |-> invalidate_cache(
                                [s EXCEPT !.led = delete_rows(s.led, 2, Len(records) - 1)])]
             ELSE [ok |-> TRUE, s |-> invalidate_cache(s)]

-----------------------------------------------------------------------------
(* Command router and classifier *)

\* An utterance: the router phrases that occur in its lower-cased text and the
\* keys extract_params_from_voice finds in it
TxtPayment    == [id |-> "dal Petrovu 40000", phrases |-> {}, extracted |-> {"name"}]
TxtRecipients == [id |-> "analiz poluchateley po postavschiku",
                  phrases |-> {"analiz poluchateley", "po postavschiku", "postavschik", "analiz"},
                  extracted |-> {"category"}]
TxtSuppliers  == [id |-> "oplata postavschiku Shamilyu 10000",
                  phrases |-> {"postavschik"}, extracted |-> {"name", "category"}]
TxtCategories == [id |-> "rashody po kategoriyam",
                  phrases |-> {"po kategoriyam", "rashody po"}, extracted |-> {}]
TxtAnalytics  == [id |-> "otchet za nedelyu", phrases |-> {"otchet"}, extracted |-> {"period"}]
TxtSearch     == [id |-> "naydi Petrova", phrases |-> {"naydi"}, extracted |-> {"name"}]
TxtSearchBare == [id |-> "poisk", phrases |-> {"poisk"}, extracted |-> {}]
TxtHistory    == [id |-> "chto bylo", phrases |-> {"chto bylo"}, extracted |-> {}]
TxtBackup     == [id |-> "sdelay backup", phrases |-> {"backup"}, extracted |-> {}]

Texts == {TxtPayment, TxtRecipients, TxtSuppliers, TxtCategories, TxtAnalytics,
          TxtSearch, TxtSearchBare, TxtHistory, TxtBackup}

RecipientPhrases == {"komu platili", "analiz poluchateley", "po poluchatelyam",
                     "komu bolshe", "top poluchateley"}
SupplierPhrases  == {"analiz postavschika", "po postavschiku", "istoriya s", "postavschik"}
CategoryPhrases  == {"po kategoriyam", "kategorii", "rashody po"}
AnalyticsPhrases == {"analiz", "analitika", "otchet", "pokazhi traty", "skolko potratili"}
SearchPhrases    == {"naydi", "nayti", "poisk", "pokazhi operacii", "kogda platili"}
HistoryPhrases   == {"istoriya", "poslednie operacii", "chto bylo"}
BackupPhrases    == {"bekap", "rezervnaya kopiya", "sohrani", "backup"}

VoiceCommand(command, text) == [type |-> "voice_command", command |-> command, params |-> text]

\* parse_voice_command with the suppliers test moved before the recipients test
parse_voice_command_suppliersFirst(text) ==
    CASE text.phrases \cap SupplierPhrases # {}  -> Some(VoiceCommand("suppliers", text))
      [] text.phrases \cap RecipientPhrases # {} -> Some(VoiceCommand("recipients", text))
      [] text.phrases \cap CategoryPhrases # {}  -> Some(VoiceCommand("categories", text))
      [] text.phrases \cap AnalyticsPhrases # {} -> Some(VoiceCommand("analytics", text))
      [] text.phrases \cap SearchPhrases # {}    -> Some(VoiceCommand("search", text))
      [] text.phrases \cap HistoryPhrases # {}   -> Some(VoiceCommand("history", text))
      [] text.phrases \cap BackupPhrases # {}    -> Some(VoiceCommand("backup", text))
      [] OTHER -> None

\* parse_voice_command(text): <<>> for None, <<command record>> for a match
parse_voice_command(text) ==
    CASE text.phrases \cap RecipientPhrases # {} -> Some(VoiceCommand("recipients", text))
      [] text.phrases \cap SupplierPhrases # {}  -> Some(VoiceCommand("suppliers", text))
      [] text.phrases \cap CategoryPhrases # {}  -> Some(VoiceCommand("categories", text))
      [] text.phrases \cap AnalyticsPhrases # {} -> Some(VoiceCommand("analytics", text))
      [] text.phrases \cap SearchPhrases # {}    -> Some(VoiceCommand("search", text))
      [] text.phrases \cap HistoryPhrases # {}   -> Some(VoiceCommand("history", text))
      [] text.phrases \cap BackupPhrases # {}    -> Some(VoiceCommand("backup", text))
      [] OTHER -> None

\* extract_params_from_voice(text, command_type): the keys of the params dict
extract_params_from_voice(text) == text.extracted

Apology == [type |-> "clarification", message |-> "izvinite, oshibka", suggestions |-> <<>>]

\* what json.loads failing gives
ParseApology == [type |-> "clarification", message |-> "oshibka analiza", suggestions |-> <<>>]

\* responses of the capability that are not what the prompt asks for: text that is
\* no JSON, an object without "type", finance objects without "amount"
NotJson == [unparsable |-> TRUE]
NoType == [confidence |-> 9]
FinNoAmount == [type |-> "finance", operation_type |-> "Rashod",
                category |-> "Zarplaty sotrudnikam", description |-> "Petrov",
                confidence |-> 9]
FinUnsureNoAmount == [FinNoAmount EXCEPT !.confidence = 5]
BadAnswers == {NotJson, NoType, FinNoAmount, FinUnsureNoAmount}

\* finance objects with every field, not of the kind the prompt asks for: a
\* category outside the list, an expense with a positive amount
FinOddCategory == [FinSalary EXCEPT !.category = "Eda"]
FinWrongSign == [FinSalary EXCEPT !.amount = 40000]
OddAnswers == {FinOddCategory, FinWrongSign}

\* the categories the prompt lists
CATEGORIES == {"Zarplaty sotrudnikam", "Vyplaty uchreditelyam", "Oplata postavschiku",
               "Procent", "Zakupka tovara", "Materialy", "Transport", "Svyaz", "Taksi",
               "Obschestvennye rashody", "Blagotvoritelnost", "Zakupka Tula",
               "Zakupka Moskva", "-"}

\* analyze_message_with_ai with the capability asked before the router
analyze_message_with_ai_nluFirst(text, answer, f) ==
    LET command_result == parse_voice_command(text)
        analysis == IF f = "nlu" THEN Apology
                    ELSE IF Has(answer, "unparsable") THEN ParseApology ELSE answer
    IN  IF command_result # None
        THEN [analysis |-> command_result[1], nlu |-> 1]
        ELSE [analysis |-> analysis, nlu |-> 1]

\* analyze_message_with_ai(text, user_context): [analysis, nlu], nlu the number of
\* calls of the external capability; answer is what the capability returns
analyze_message_with_ai(text, answer, f) ==
    LET command_result == parse_voice_command(text)
    IN  IF command_result # None
        THEN [analysis |-> command_result[1], nlu |-> 0]
        ELSE IF f = "nlu"
             THEN [analysis |-> Apology, nlu |-> 1]
             ELSE IF Has(answer, "unparsable")
                  THEN [analysis |-> ParseApology, nlu |-> 1]
                  ELSE [analysis |-> answer, nlu |-> 1]

-----------------------------------------------------------------------------
(* Handlers' bodies: each gives [s, reply] *)

\* the show_* / advanced_search / create_backup bodies: one cache read, then the
\* report called name is sent ("report"), or the error reply of their except branch
Report(s, name, f) ==
    LET got == get_cached_records(s, f)
    IN  [s |-> got.s, reply |-> IF got.ok THEN "report" ELSE "error"]

\* delete_last()
delete_last(s, f) ==
    LET got == get_cached_records(s, f)
    IN  IF ~got.ok
        THEN [s |-> got.s, reply |-> "error"]
        ELSE LET last_row == Len(got.s.cache[1]) + 1
                 del == delete_finance_record(got.s, last_row, f)
             IN  [s |-> del.s, reply |-> IF del.ok THEN "deleted" ELSE "delete_failed"]

\* handle_voice_command that forgets the last operations once the command is done
handle_voice_command_forgetful(s, analysis, f) ==
    LET r == IF analysis.command = "search" /\ extract_params_from_voice(analysis.params) = {}
             THEN [s |-> [s EXCEPT !.kb = @ \cup {"search"}], reply |-> "search_help"]
             ELSE Report(s, analysis.command, f)
    IN  [s |-> [r.s EXCEPT !.last = EmptyStore], reply |-> r.reply]

\* handle_voice_command(update, context, analysis)
handle_voice_command(s, analysis, f) ==
    LET command == analysis.command
        params == extract_params_from_voice(analysis.params)
    IN  IF command = "search" /\ params = {}
        THEN [s |-> [s EXCEPT !.kb = @ \cup {"search"}], reply |-> "search_help"]
        ELSE Report(s, command, f)

\* process_analysis_result without the confidence branch
process_analysis_result_noAsk(s, analysis, user_id, f) ==
    CASE analysis.type = "voice_command" -> handle_voice_command(s, analysis, f)
      [] analysis.type = "finance" ->
            LET added == add_finance_record(s, analysis, user_id, f)
            IN  IF added.ok
                THEN [s |-> [added.s EXCEPT !.kb = @ \cup {"quick"}], reply |-> "recorded"]
                ELSE [s |-> added.s, reply |-> "write_failed"]
      [] OTHER -> [s |-> s, reply |-> "clarify"]

\* process_analysis_result(update, analysis, user_id, source_info, context); the
\* reply "raised" stands for an exception that leaves the function
process_analysis_result(s, analysis, user_id, f) ==
    CASE ~Has(analysis, "type") -> [s |-> s, reply |-> "raised"]   \* analysis["type"]: KeyError
      [] analysis.type = "voice_command" -> handle_voice_command(s, analysis, f)
      [] analysis.type = "finance" ->
            IF Get(analysis, "confidence", 10) < CONFIDENCE_THRESHOLD
            THEN IF RequiredFields \subseteq DOMAIN analysis
                 THEN [s |-> [s EXCEPT !.kb = @ \cup {"confirm_finance"}],
                       reply |-> "confirm_prompt"]
                 ELSE [s |-> s, reply |-> "raised"]   \* the prompt's f-string: KeyError
            ELSE LET added == add_finance_record(s, analysis, user_id, f)
                 IN  IF added.ok
                     THEN [s |-> [added.s EXCEPT !.kb = @ \cup {"quick"}], reply |-> "recorded"]
                     ELSE [s |-> added.s, reply |-> "write_failed"]
      [] OTHER -> [s |-> s, reply |-> "clarify"]

\* the body of handle_message / handle_voice after the allow-list check
Classify(s, text, answer, user_id, f) ==
    LET a == analyze_message_with_ai(text, answer, f)
        r == process_analysis_result(s, a.analysis, user_id, f)
    IN  [s |-> [r.s EXCEPT !.nlu = a.nlu], reply |-> r.reply]

-----------------------------------------------------------------------------
(* Start of the process *)

OldRow == <<"31.10.2026", "Rashod", "Taksi", "Yandex", -500, "">>
OldLine(i) == <<"Yandex", -i, "Taksi">>

NoFile == [state |-> "absent", data |-> EmptyStore]
\* a file a previous run left: u1 holds a full list, u2 a list of one line
FullFile == [state |-> "ok",
             data |-> [u \in {"u1", "u2"} |->
                         IF u = "u1" THEN [i \in 1..CONTEXT_LIMIT |-> OldLine(i)]
                         ELSE <<OldLine(1)>>]]

NoOutput == [reply |-> "-", fetches |-> 0, nlu |-> 0]

\* no coroutine in flight
NoTask == [pc |-> "idle", answer |-> Clarify, seen |-> EmptyStore, held |-> None,
           reply |-> "-"]

InitState(sheets, files) ==
    /\ phase = "boot"
    /\ ledger \in sheets
    /\ contextFile \in files
    /\ SHEETS_CACHE = None
    /\ CACHE_TIMESTAMP = None
    /\ now = 0
    /\ today = 1
    /\ USER_CONTEXT = EmptyStore
    /\ USER_LAST_OPERATIONS = EmptyStore
    /\ keyboards = {"quick", "search"}   \* the chat still shows the menus of earlier use
    /\ appended = 0
    /\ out = NoOutput
    /\ tasks = [u \in Users |-> NoTask]

InitWith(sheets, files) == InitState(sheets, files) /\ arg = None /\ res = None

\* a pure function is to be evaluated on one of args
InitPure(args) ==
    /\ InitState({<<HEADER, OldRow>>}, {NoFile})
    /\ arg \in {Some(a) : a \in args}
    /\ res = None

\* what a pure function leaves alone: everything
Frame == UNCHANGED <<phase, ledger, SHEETS_CACHE, CACHE_TIMESTAMP, now, today, USER_CONTEXT,
                     contextFile, USER_LAST_OPERATIONS, keyboards, appended, out, tasks, arg>>

Init == InitWith({<<HEADER, OldRow>>}, {NoFile, FullFile})

StartupFaults == {"none", "openai", "sheets", "token", "row_values"}

\* initialize_services() that hands back the services when the chat token is
\* missing
initialize_services_noTokenCheck(f) ==
    IF f \in {"openai", "sheets"} THEN None ELSE Some([sheet_checked |-> f # "row_values"])

\* one run of the body of initialize_services(): None, or the services; a failure
\* of the NLU client, of the sheet or of the token check is caught and answered
\* with "return None", a failure of the header check with a warning
initialize_services(f) ==
    IF f \in {"openai", "sheets", "token"} THEN None
    ELSE Some([sheet_checked |-> f # "row_values"])

\* whether a run of the body ends in an exception: every failure is caught inside
Raises(f) == FALSE

\* the call initialize_services() under @retry: schedule[i] is what befalls the
\* i-th run of the body; a run is repeated only when it raised and runs are left
RECURSIVE Retrying(_, _)
Retrying(schedule, i) ==
    IF Raises(schedule[i]) /\ i < STOP_AFTER_ATTEMPT
    THEN Retrying(schedule, i + 1)
    ELSE [attempts |-> i, f |-> schedule[i],
          services |-> IF Raises(schedule[i]) THEN None ELSE initialize_services(schedule[i])]

\* initialize_services(), the SERVICES check, load_context() and main() up to
\* run_polling
Startup(f) ==
    /\ phase = "boot"
    /\ IF initialize_services(f) = None
       THEN /\ phase' = "exited"
            /\ UNCHANGED <<ledger, USER_CONTEXT>>
       ELSE /\ phase' = "serving"
            /\ ledger' = IF f = "none" /\ ledger = <<>> THEN <<HEADER>> ELSE ledger
            /\ USER_CONTEXT' = load_context(contextFile, USER_CONTEXT)
    /\ UNCHANGED <<SHEETS_CACHE, CACHE_TIMESTAMP, now, today, contextFile,
                   USER_LAST_OPERATIONS, keyboards, appended, out, tasks, arg, res>>

-----------------------------------------------------------------------------
(* Handlers *)

Min(a, b) == IF a < b THEN a ELSE b

\* a handler's result r = [s, reply] becomes the next state
Apply(r) ==
    /\ ledger' = r.s.led
    /\ SHEETS_CACHE' = r.s.cache
    /\ CACHE_TIMESTAMP' = r.s.ts
    /\ USER_CONTEXT' = r.s.ctx
    /\ contextFile' = r.s.file
    /\ USER_LAST_OPERATIONS' = r.s.last
    /\ keyboards' = r.s.kb
    /\ appended' = IF Len(r.s.led) > Len(ledger) THEN Min(appended + 1, MaxAppends + 1)
                   ELSE appended
    /\ out' = [reply |-> r.reply, fetches |-> r.s.fetches, nlu |-> r.s.nlu]
    /\ UNCHANGED <<phase, now, today, arg, res>>

\* a handler that runs from its start to its end in one step
Finish(r, user_id) == Apply(r) /\ UNCHANGED tasks

Denied == [s |-> State, reply |-> "denied"]

Allowed(user_id) == user_id \in ALLOWED_USERS

\* handle_message(update, context) of the user user_id: [s, reply]
handle_message(s, user_id, text, answer, f) ==
    IF ~Allowed(user_id) THEN [s |-> s, reply |-> "denied"]
    ELSE Classify(s, text, answer, user_id, f)

\* handle_voice(update, context): the transcript is text
handle_voice(s, user_id, text, answer, f) ==
    IF ~Allowed(user_id) THEN [s |-> s, reply |-> "denied"]
    ELSE IF f = "transcribe" THEN [s |-> s, reply |-> "voice_error"]
    ELSE LET r == Classify(s, text, answer, user_id, f)
         IN  IF r.reply = "raised"   \* caught by the except of handle_voice
             THEN [s |-> r.s, reply |-> "voice_error"]
             ELSE r

\* start(update, context)
start(s, user_id) ==
    IF ~Allowed(user_id) THEN [s |-> s, reply |-> "denied"]
    ELSE [s |-> [s EXCEPT !.kb = @ \cup {"quick"}], reply |-> "welcome"]

\* advanced_search(update, context) as the /search command: no look at the sender
advanced_search(s, user_id, hasArgs, f) ==
    IF ~hasArgs THEN [s |-> s, reply |-> "search_usage"]
    ELSE Report(s, "search", f)

\* show_context_history(update, context) as the /history command
show_context_history(s, user_id, f) == Report(s, "history", f)

\* show_analytics(update, context) as the /analytics command
show_analytics(s, user_id, f) == Report(s, "analytics", f)

\* create_backup(update, context) as the /backup command
create_backup(s, user_id, f) == Report(s, "backup", f)

\* clear_table_command(update, context)
clear_table_command(s, user_id) ==
    IF ~Allowed(user_id) THEN [s |-> s, reply |-> "denied"]
    ELSE [s |-> [s EXCEPT !.kb = @ \cup {"confirm_clear"}], reply |-> "clear_prompt"]

HandleMessage(user_id, text, answer, f) ==
    /\ phase = "serving"
    /\ Finish(handle_message(State, user_id, text, answer, f), user_id)

HandleVoice(user_id, text, answer, f) ==
    /\ phase = "serving"
    /\ Finish(handle_voice(State, user_id, text, answer, f), user_id)

Start(user_id) ==
    /\ phase = "serving"
    /\ Finish(start(State, user_id), user_id)

AdvancedSearch(user_id, hasArgs, f) ==
    /\ phase = "serving"
    /\ Finish(advanced_search(State, user_id, hasArgs, f), user_id)

ShowContextHistory(user_id, f) ==
    /\ phase = "serving"
    /\ Finish(show_context_history(State, user_id, f), user_id)

ShowAnalytics(user_id, f) ==
    /\ phase = "serving"
    /\ Finish(show_analytics(State, user_id, f), user_id)

CreateBackup(user_id, f) ==
    /\ phase = "serving"
    /\ Finish(create_backup(State, user_id, f), user_id)

ClearTableCommand(user_id) ==
    /\ phase = "serving"
    /\ Finish(clear_table_command(State, user_id), user_id)

\* the callback data of the buttons, by the keyboard that carries them
QuickButtons == {"quick_analytics", "quick_search", "quick_history", "quick_backup",
                 "quick_categories", "quick_recipients", "quick_suppliers",
                 "quick_edit", "quick_delete"}
SearchButtons == {"search_zarplaty"}
ConfirmButtons(action_type) ==
    CASE action_type = "finance" -> {"confirm_finance_yes", "confirm_finance_no"}
      [] action_type = "clear"   -> {"confirm_clear_yes", "confirm_clear_no"}

ButtonsOf(kb) == CASE kb = "quick"  -> QuickButtons
                   [] kb = "search" -> SearchButtons
                   [] kb = "confirm_finance" -> ConfirmButtons("finance")
                   [] kb = "confirm_clear"   -> ConfirmButtons("clear")

Buttons == UNION {ButtonsOf(kb) : kb \in {"quick", "search", "confirm_finance", "confirm_clear"}}

\* data.split("_") of a confirm_ button: [action, choice]
ConfirmParts(data) ==
    CASE data = "confirm_finance_yes" -> [action |-> "finance", choice |-> "yes"]
      [] data = "confirm_finance_no"  -> [action |-> "finance", choice |-> "no"]
      [] data = "confirm_clear_yes"   -> [action |-> "clear", choice |-> "yes"]
      [] data = "confirm_clear_no"    -> [action |-> "clear", choice |-> "no"]

\* handle_callback_query with every confirmed 'yes' clearing the table
callback_body_anyYes(s, data, f) ==
    IF data \in {"confirm_finance_yes", "confirm_clear_yes"}
    THEN LET cleared == clear_table(s, f)
         IN  [s |-> cleared.s, reply |-> IF cleared.ok THEN "cleared" ELSE "clear_failed"]
    ELSE IF data \in {"confirm_finance_no", "confirm_clear_no"}
    THEN [s |-> s, reply |-> "cancelled"]
    ELSE [s |-> s, reply |-> "not_implemented"]

\* the dispatch of handle_callback_query
callback_body(s, data, f) ==
    CASE data = "quick_analytics"  -> Report(s, "analytics", f)
      [] data = "quick_search"     -> [s |-> [s EXCEPT !.kb = @ \cup {"search"}], reply |-> "search_menu"]
      [] data = "quick_history"    -> Report(s, "history", f)
      [] data = "quick_backup"     -> Report(s, "backup", f)
      [] data = "quick_categories" -> Report(s, "categories", f)
      [] data = "quick_recipients" -> Report(s, "recipients", f)
      [] data = "quick_suppliers"  -> Report(s, "suppliers", f)
      [] data = "quick_edit"       -> [s |-> s, reply |-> "edit_hint"]
      [] data = "quick_delete"     -> delete_last(s, f)
      [] data \in SearchButtons    -> Report(s, "search", f)
      [] OTHER ->
            LET parts == ConfirmParts(data)
            IN  IF parts.choice = "yes" /\ parts.action = "clear"
                THEN LET cleared == clear_table(s, f)
                     IN  [s |-> cleared.s,
                          reply |-> IF cleared.ok THEN "cleared" ELSE "clear_failed"]
                ELSE IF parts.choice = "no"
                THEN [s |-> s, reply |-> "cancelled"]
                ELSE [s |-> s, reply |-> "unknown_confirmation"]

\* handle_callback_query(update, context) of the user user_id: no look at the
\* sender
handle_callback_query(s, user_id, data, f) == callback_body(s, data, f)

\* a press of a button some keyboard of the chat carries
HandleCallbackQuery(user_id, data, f) ==
    /\ phase = "serving"
    /\ \E kb \in keyboards : data \in ButtonsOf(kb)
    /\ Finish(handle_callback_query(State, user_id, data, f), user_id)

\* edit_finance_record, called on a row the sheet holds (no handler of the source
\* calls it: edit_last only sends a hint)
EditFinanceRecord(row_number, data, f) ==
    /\ phase = "serving"
    /\ row_number \in 1..Len(ledger)
    /\ LET edited == edit_finance_record(State, row_number, data, f)
       IN  Finish([s |-> edited.s, reply |-> IF edited.ok THEN "edited" ELSE "edit_failed"], "-")

\* time passes
Tick ==
    /\ phase = "serving"
    /\ now < MaxTime
    /\ now' = now + 1
    /\ UNCHANGED <<phase, ledger, SHEETS_CACHE, CACHE_TIMESTAMP, today, USER_CONTEXT,
                   contextFile, USER_LAST_OPERATIONS, keyboards, appended, out, tasks, arg, res>>

\* midnight in the business timezone
NewDay ==
    /\ phase = "serving"
    /\ today < MaxDay
    /\ today' = today + 1
    /\ UNCHANGED <<phase, ledger, SHEETS_CACHE, CACHE_TIMESTAMP, now, USER_CONTEXT,
                   contextFile, USER_LAST_OPERATIONS, keyboards, appended, out, tasks, arg, res>>

-----------------------------------------------------------------------------
(* The environment: who sends what, and which call fails *)

\* the utterances of the handler specifications: one the router lets through, one
\* it turns into a report, one it turns into the search menu
MainTexts == {TxtPayment, TxtAnalytics, TxtSearchBare}

\* the answers drawn in the handler specification: a confident candidate, an
\* unsure one, a clarification
MainAnswers == {FinSalary, FinUnsure, Clarify}

\* the answers worth drawing for a text: none matters when the router matches
AnswersFor(text) == IF parse_voice_command(text) # None THEN {Clarify} ELSE MainAnswers

ReadFaults == {"none", "get_all_records"}
WriteFaults == {"none", "append_row", "get_all_records", "save_context"}

\* the buttons pressed in the handler specification: of the six report buttons,
\* which run the same code path, one
MainButtons == Buttons \ {"quick_history", "quick_backup", "quick_categories",
                          "quick_recipients", "quick_suppliers"}

\* the calls a handler run can reach, so the failures worth drawing
FaultsFor(text, answer) ==
    IF parse_voice_command(text) # None THEN ReadFaults
    ELSE IF answer.type = "finance" /\ Get(answer, "confidence", 10) >= CONFIDENCE_THRESHOLD
         THEN WriteFaults \cup {"nlu"}
         ELSE {"none", "nlu"}

ButtonFaults(data) ==
    CASE data = "quick_delete"      -> {"none", "get_all_records", "delete_rows"}
      [] data = "confirm_clear_yes" -> {"none", "get_all_values", "delete_rows"}
      [] data \in {"quick_search", "quick_edit", "confirm_finance_yes",
                   "confirm_finance_no", "confirm_clear_no"} -> {"none"}
      [] OTHER -> ReadFaults

\* whether this run of the message pipeline stays within a budget of appended rows
WithinBudget(user_id, text, answer, f, budget) ==
    (Allowed(user_id) /\ Len(Classify(State, text, answer, user_id, f).s.led) > Len(ledger))
        => appended < budget

\* the handlers at one instant of the cache clock, two allow-listed users and an
\* outsider, with at most MaxAppends rows appended
Next ==
    \/ \E f \in StartupFaults : Startup(f)
    \/ \E u \in Users, text \in MainTexts :
         \E answer \in AnswersFor(text) : \E f \in FaultsFor(text, answer) :
            WithinBudget(u, text, answer, f, MaxAppends) /\ HandleMessage(u, text, answer, f)
    \/ \E u \in Users, text \in MainTexts :
         \E answer \in AnswersFor(text) : \E f \in FaultsFor(text, answer) \cup {"transcribe"} :
            WithinBudget(u, text, answer, f, MaxAppends) /\ HandleVoice(u, text, answer, f)
    \/ \E u \in Users : Start(u)
    \/ \E u \in Users, hasArgs \in BOOLEAN, f \in ReadFaults : AdvancedSearch(u, hasArgs, f)
    \/ \E u \in Users, f \in ReadFaults : ShowContextHistory(u, f)
    \/ \E u \in Users, f \in ReadFaults : ShowAnalytics(u, f)
    \/ \E u \in Users, f \in ReadFaults : CreateBackup(u, f)
    \/ \E u \in Users : ClearTableCommand(u)
    \/ \E u \in Users, data \in MainButtons : \E f \in ButtonFaults(data) :
          HandleCallbackQuery(u, data, f)

Spec == Init /\ [][Next]_vars

-----------------------------------------------------------------------------
(* The cache under a running clock: one user, every mutation, reads, time *)

InitCache == InitWith({<<HEADER, OldRow>>}, {NoFile})

NextCache ==
    \/ Startup("none")
    \/ \E answer \in {FinSalary, FinInflow}, f \in WriteFaults :
          /\ WithinBudget("u1", TxtPayment, answer, f, MaxAppends)
          /\ HandleMessage("u1", TxtPayment, answer, f)
    \/ \E f \in ReadFaults : ShowContextHistory("u1", f)
    \/ ClearTableCommand("u1")
    \/ \E data \in {"quick_delete", "confirm_clear_yes"} : \E f \in ButtonFaults(data) :
          HandleCallbackQuery("u1", data, f)
    \/ \E row \in 1..(MaxAppends + 2), f \in {"none", "update_cells"} :
          EditFinanceRecord(row, FinInflow, f)
    \/ Tick

SpecCache == InitCache /\ [][NextCache]_vars

-----------------------------------------------------------------------------
(* The sheet over several days, with or without its header row: one user *)

InitLedger == InitWith({<<>>, <<HEADER, OldRow>>}, {NoFile})

NextLedger ==
    \/ \E f \in {"none", "row_values"} : Startup(f)
    \/ \E answer \in {FinSalary, FinInflow}, f \in WriteFaults :
          /\ WithinBudget("u1", TxtPayment, answer, f, MaxAppends)
          /\ HandleMessage("u1", TxtPayment, answer, f)
    \/ \E f \in ReadFaults : ShowContextHistory("u1", f)
    \/ \E f \in ButtonFaults("quick_delete") : HandleCallbackQuery("u1", "quick_delete", f)
    \/ NewDay

SpecLedger == InitLedger /\ [][NextLedger]_vars

-----------------------------------------------------------------------------
(* The context store in a long run: one user, a sheet of at most MaxRows rows *)

InitCtx == InitWith({<<HEADER>>}, {NoFile})

NextCtx ==
    \/ Startup("none")
    \/ \E answer \in {FinSalary, FinInflow}, f \in {"none", "append_row"} :
          /\ Len(ledger) <= MaxRows
          /\ HandleMessage("u1", TxtPayment, answer, f)
    \/ HandleCallbackQuery("u1", "quick_delete", "none")

SpecCtx == InitCtx /\ [][NextCtx]_vars

-----------------------------------------------------------------------------
(* The context store across restarts of the process: two users *)

\* the process stops and is started again: the module-level values are those of
\* a fresh import, the sheet and user_context.json stay
Restart ==
    /\ phase = "serving"
    /\ phase' = "boot"
    /\ SHEETS_CACHE' = None
    /\ CACHE_TIMESTAMP' = None
    /\ USER_CONTEXT' = EmptyStore
    /\ USER_LAST_OPERATIONS' = EmptyStore
    /\ out' = NoOutput
    /\ UNCHANGED <<ledger, now, today, contextFile, keyboards, appended, tasks, arg, res>>

InitRestart == InitWith({<<HEADER>>}, {NoFile})

NextRestart ==
    \/ Startup("none")
    \/ \E u \in ALLOWED_USERS, answer \in {FinSalary, FinInflow},
          f \in {"none", "append_row", "save_context"} :
          /\ WithinBudget(u, TxtPayment, answer, f, MaxAppends + 1)
          /\ HandleMessage(u, TxtPayment, answer, f)
    \/ Restart

SpecRestart == InitRestart /\ [][NextRestart]_vars

-----------------------------------------------------------------------------
(* handle_message as a coroutine: its awaits are the points where the handler *)
(* of another user's message may run                                          *)

\* CommitBase reading the context store as it was when the message arrived
CommitBase_atArrival(user_id) == [State EXCEPT !.ctx = tasks[user_id].seen]

\* the shared state the synchronous stretch from analyze_message_with_ai to the
\* end of add_finance_record works on: the module globals as they are then
CommitBase(user_id) == State

\* handle_message up to its first await (the "analysing" reply)
TaskBegin(user_id, answer) ==
    /\ phase = "serving"
    /\ Allowed(user_id)
    /\ tasks[user_id].pc = "idle"
    /\ tasks' = [tasks EXCEPT ![user_id] =
                    [NoTask EXCEPT !.pc = "running", !.answer = answer,
                                   !.seen = USER_CONTEXT]]
    /\ UNCHANGED <<phase, ledger, SHEETS_CACHE, CACHE_TIMESTAMP, now, today, USER_CONTEXT,
                   contextFile, USER_LAST_OPERATIONS, keyboards, appended, out, arg, res>>

\* from that await to the next one: analyze_message_with_ai and
\* process_analysis_result up to the reply it sends
TaskCommit(user_id, f) ==
    /\ phase = "serving"
    /\ tasks[user_id].pc = "running"
    /\ LET r == Classify(CommitBase(user_id), TxtPayment, tasks[user_id].answer, user_id, f)
       IN  /\ Apply(r)
           /\ tasks' = [tasks EXCEPT ![user_id].pc = "replying", ![user_id].reply = r.reply]

\* the reply is sent and the coroutine returns
TaskEnd(user_id) ==
    /\ phase = "serving"
    /\ tasks[user_id].pc = "replying"
    /\ tasks' = [tasks EXCEPT ![user_id].pc = "done"]
    /\ UNCHANGED <<phase, ledger, SHEETS_CACHE, CACHE_TIMESTAMP, now, today, USER_CONTEXT,
                   contextFile, USER_LAST_OPERATIONS, keyboards, appended, out, arg, res>>

\* get_cached_records with an await between the fetch and the two assignments
RefreshYields_awaited == TRUE

\* whether the event loop can run another handler between the remote fetch of
\* get_cached_records and its assignments: the fetch is a blocking call
RefreshYields == FALSE

\* show_context_history up to its first await (the "fetching" reply)
ReaderBegin(user_id) ==
    /\ phase = "serving"
    /\ tasks[user_id].pc = "idle"
    /\ tasks' = [tasks EXCEPT ![user_id] = [NoTask EXCEPT !.pc = "reading",
                                                         !.seen = USER_CONTEXT]]
    /\ UNCHANGED <<phase, ledger, SHEETS_CACHE, CACHE_TIMESTAMP, now, today, USER_CONTEXT,
                   contextFile, USER_LAST_OPERATIONS, keyboards, appended, out, arg, res>>

\* from that await to the next one: get_cached_records and the rendering
ReaderRead(user_id, f) ==
    /\ phase = "serving"
    /\ tasks[user_id].pc \in {"reading", "fetched"}
    /\ IF tasks[user_id].pc = "reading" /\ RefreshYields /\ CacheMiss(State) /\ f = "none"
       THEN \* the fetch is made, the assignments wait
            /\ tasks' = [tasks EXCEPT ![user_id].pc = "fetched",
                                      ![user_id].held = Some(get_all_records(ledger))]
            /\ UNCHANGED <<phase, ledger, SHEETS_CACHE, CACHE_TIMESTAMP, now, today,
                           USER_CONTEXT, contextFile, USER_LAST_OPERATIONS, keyboards,
                           appended, out, arg, res>>
       ELSE LET r == IF tasks[user_id].pc = "fetched"
                     THEN [s |-> [State EXCEPT !.cache = tasks[user_id].held,
                                               !.ts = Some(now), !.fetches = 1],
                           reply |-> "report"]
                     ELSE Report(State, "history", f)
            IN  /\ Apply(r)
                /\ tasks' = [tasks EXCEPT ![user_id].pc = "replying",
                                          ![user_id].reply = r.reply]

InitTasks == InitWith({<<HEADER>>}, {NoFile})

NextTasks ==
    \/ Startup("none")
    \/ \E u \in ALLOWED_USERS, answer \in {FinSalary, FinInflow} : TaskBegin(u, answer)
    \/ \E u \in ALLOWED_USERS, f \in {"none", "append_row", "save_context"} : TaskCommit(u, f)
    \/ \E u \in ALLOWED_USERS : TaskEnd(u)

SpecTasks == InitTasks /\ [][NextTasks]_vars

-----------------------------------------------------------------------------
(* Readers and writers of the cache as coroutines, among one-step handlers *)

InitRace == InitWith({<<HEADER, OldRow>>}, {NoFile})

NextRace ==
    \/ Startup("none")
    \/ \E answer \in {FinSalary, FinInflow} : TaskBegin("u1", answer)
    \/ \E f \in {"none", "append_row", "get_all_records"} : TaskCommit("u1", f)
    \/ ReaderBegin("u2")
    \/ \E f \in ReadFaults : ReaderRead("u2", f)
    \/ \E u \in ALLOWED_USERS : TaskEnd(u)
    \/ \E u \in ALLOWED_USERS, f \in ReadFaults : ShowContextHistory(u, f)
    \/ \E f \in ButtonFaults("quick_delete") : HandleCallbackQuery("u1", "quick_delete", f)

SpecRace == InitRace /\ [][NextRace]_vars

-----------------------------------------------------------------------------
(* The router as a pure function of the text *)

\* the phrases drawn for the texts of this specification
DrawnPhrases == {"analiz poluchateley", "komu platili", "po postavschiku", "postavschik",
                 "po kategoriyam", "analiz", "naydi", "istoriya", "backup"}

\* a phrase that occurs in every text in which p occurs, being a part of p
PartsOf(p) ==
    CASE p = "analiz poluchateley" -> {"analiz"}
      [] p = "po postavschiku"     -> {"postavschik"}
      [] OTHER -> {}

\* texts by the router phrases that occur in them, such as a text can hold
RouterTexts ==
    {[id |-> "-", phrases |-> S, extracted |-> {}] :
        S \in {T \in SUBSET DrawnPhrases : \A p \in T : PartsOf(p) \subseteq T}}
       \cup Texts

InitRouter == InitPure(RouterTexts)

\* parse_voice_command(text) is called
RouteText ==
    /\ arg # None
    /\ res = None
    /\ res' = Some(parse_voice_command(arg[1]))
    /\ Frame

NextRouter == RouteText

SpecRouter == InitRouter /\ [][NextRouter]_vars

-----------------------------------------------------------------------------
(* The classifier as a pure function of the text and of what the capability *)
(* returns                                                                   *)

ClassifierInputs ==
    {[text |-> t, answer |-> a, f |-> f] :
        t \in RouterTexts, a \in NluAnswers \cup BadAnswers \cup {FinSupplier},
        f \in {"none", "nlu"}}

InitClassifier == InitPure(ClassifierInputs)

\* analyze_message_with_ai(text, user_context) is called
ClassifyText ==
    /\ arg # None
    /\ res = None
    /\ res' = Some(analyze_message_with_ai(arg[1].text, arg[1].answer, arg[1].f))
    /\ Frame

NextClassifier == ClassifyText

SpecClassifier == InitClassifier /\ [][NextClassifier]_vars

-----------------------------------------------------------------------------
(* The filter of advanced_search, as a function of the query and the records *)

\* a query is the sequence of its tokens: '>' and '<', integers, words
Sym(v)  == [k |-> "sym", v |-> v, n |-> 0]
Num(n)  == [k |-> "int", v |-> "", n |-> n]
Word(v) == [k |-> "word", v |-> v, n |-> 0]

\* str.lower() on the words in use
Lower(v) == CASE v = "Petrov" -> "petrov"
              [] v = "Ivanov" -> "ivanov"
              [] v = "Kassa" -> "kassa"
              [] v = "Rashod" -> "rashod"
              [] v = "Popolnenie" -> "popolnenie"
              [] v = "Zarplaty sotrudnikam" -> "zarplaty sotrudnikam"
              [] v = "Vyruchka" -> "vyruchka"
              [] OTHER -> v

\* " ".join(args).lower()
LowerQuery(q) == [i \in 1..Len(q) |-> [q[i] EXCEPT !.v = Lower(@)]]

Contains(q, v) == \E i \in 1..Len(q) : q[i].k = "sym" /\ q[i].v = v

FirstAt(q, v) == CHOOSE i \in 1..Len(q) :
                    /\ q[i].k = "sym" /\ q[i].v = v
                    /\ \A j \in 1..(i - 1) : ~(q[j].k = "sym" /\ q[j].v = v)

\* search_query.split(v)[1]: what stands between the first v and the next one
SplitSecond(q, v) ==
    LET rest == SubSeq(q, FirstAt(q, v) + 1, Len(q))
    IN  IF Contains(rest, v) THEN SubSeq(rest, 1, FirstAt(rest, v) - 1) ELSE rest

\* int(text): the text is one integer, blanks around it allowed; None stands for
\* ValueError
ParseInt(seg) == IF Len(seg) = 1 /\ seg[1].k = "int" THEN Some(seg[1].n) ELSE None

\* search_query in str(row).lower(), on whole tokens: the query is one word or
\* one number that a cell of the row holds
InRow(q, row) ==
    /\ Len(q) = 1
    /\ \/ q[1].k = "word" /\ \E c \in {1, 2, 3, 4, 6} : Lower(row[c]) = q[1].v
       \/ q[1].k = "int" /\ row[5] = q[1].n

SearchError == [status |-> "error", rows |-> <<>>]

\* advanced_search from the query to found_records: [status, rows]
found_records(finance_records, query) ==
    LET search_query == LowerQuery(query)
        Above(thresh) == SelectSeq(finance_records, LAMBDA row : row[5] > thresh)
        Below(thresh) == SelectSeq(finance_records, LAMBDA row : row[5] < thresh)
        Like == SelectSeq(finance_records, LAMBDA row : InRow(search_query, row))
        Found(rows) == [status |-> IF rows = <<>> THEN "nothing" ELSE "found", rows |-> rows]
    IN  IF finance_records = <<>>
        THEN [status |-> "no_data", rows |-> <<>>]
        ELSE IF Contains(search_query, ">")
        THEN LET thresh == ParseInt(SplitSecond(search_query, ">"))
             IN  IF thresh = None THEN SearchError ELSE Found(Above(thresh[1]))
        ELSE IF Contains(search_query, "<")
        THEN LET thresh == ParseInt(SplitSecond(search_query, "<"))
             IN  IF thresh = None THEN SearchError ELSE Found(Below(thresh[1]))
        ELSE Found(Like)

SearchRows == << <<"29.10.2026", "Rashod", "Zarplaty sotrudnikam", "Petrov", 60000, "">>,
                 <<"30.10.2026", "Rashod", "Zarplaty sotrudnikam", "Ivanov", 50000, "">>,
                 <<"31.10.2026", "Popolnenie", "Vyruchka", "Petrov", 20000, "">>,
                 <<"01.11.2026", "Popolnenie", "Vyruchka", "Kassa", 5000, "">> >>

QueryTokens == {Sym(">"), Sym("<"), Num(50000), Num(10000), Word("Petrov")}

Queries == UNION {[1..n -> QueryTokens] : n \in 1..MaxTokens}

InitSearch == InitPure({[query |-> q, records |-> r] : q \in Queries, r \in {<<>>, SearchRows}})

\* the filter of advanced_search is applied
SearchRecords ==
    /\ arg # None
    /\ res = None
    /\ res' = Some(found_records(arg[1].records, arg[1].query))
    /\ Frame

NextSearch == SearchRecords

SpecSearch == InitSearch /\ [][NextSearch]_vars

-----------------------------------------------------------------------------
(* The report of advanced_search: order, slice, count and total *)

\* pd.to_datetime(cell, format='%d.%m.%Y', errors='coerce') as a day number; None
\* stands for NaT
to_datetime(cell) == CASE cell = "29.10.2026" -> Some(1)
                       [] cell = "30.10.2026" -> Some(2)
                       [] cell = "31.10.2026" -> Some(3)
                       [] cell = "01.11.2026" -> Some(4)
                       [] cell = "02.11.2026" -> Some(5)
                       [] cell = "03.11.2026" -> Some(6)
                       [] cell = "04.11.2026" -> Some(7)
                       [] OTHER -> None

\* the order of sort_values('Data', ascending=False): later dates first, NaT last
Before(a, b) ==
    LET da == to_datetime(a[1])
        db == to_datetime(b[1])
    IN  da # None /\ (db = None \/ da[1] > db[1])

RECURSIVE sort_values(_)
sort_values(rows) ==
    IF rows = <<>> THEN <<>>
    ELSE LET sorted == sort_values(SubSeq(rows, 1, Len(rows) - 1))
             row == rows[Len(rows)]
             at == Cardinality({i \in 1..Len(sorted) : ~Before(row, sorted[i])})
         IN  SubSeq(sorted, 1, at) \o <<row>> \o SubSeq(sorted, at + 1, Len(sorted))

\* DataFrame.head(n)
head(rows, n) == SubSeq(rows, 1, Min(n, Len(rows)))

\* Series.sum() of the amounts
RECURSIVE SumAmounts(_)
SumAmounts(rows) == IF rows = <<>> THEN 0 ELSE rows[1][5] + SumAmounts(Tail(rows))

NoReport(status) == [status |-> status, count |-> 0, display |-> <<>>, more |-> 0, total |-> 0]

\* advanced_search with count and total taken from the displayed rows
search_reply_ofDisplayed(finance_records, query) ==
    LET found == found_records(finance_records, query)
        display_records == head(sort_values(found.rows), DISPLAY_LIMIT)
    IN  IF found.status # "found" THEN NoReport(found.status)
        ELSE [status |-> "found", count |-> Len(display_records),
              display |-> display_records, more |-> 0,
              total |-> SumAmounts(display_records)]

\* advanced_search from the query to the message sent: [status, count, display,
\* more, total]
search_reply(finance_records, query) ==
    LET found == found_records(finance_records, query)
        sorted == sort_values(found.rows)
        display_records == head(sorted, DISPLAY_LIMIT)
    IN  IF found.status # "found" THEN NoReport(found.status)
        ELSE IF \E i \in 1..Len(display_records) : to_datetime(display_records[i][1]) = None
        THEN NoReport("error")   \* NaT.strftime raises
        ELSE [status |-> "found", count |-> Len(sorted), display |-> display_records,
              more |-> IF Len(sorted) > DISPLAY_LIMIT THEN Len(sorted) - DISPLAY_LIMIT ELSE 0,
              total |-> SumAmounts(sorted)]

DateCells == <<"01.11.2026", "29.10.2026", "31.10.2026", "02.11.2026", "30.10.2026">>

\* a sheet of n rows the program appended, on five days in no order
ManyRows(n, k) ==
    [i \in 1..n |-> <<DateCells[((i * k) % 5) + 1], "Rashod", "Zarplaty sotrudnikam",
                      "Petrov", i * 4000, "">>]

InitReport == InitPure({[query |-> q, records |-> ManyRows(n, k)] :
                           q \in Queries, n \in 1..MaxMatches, k \in 1..2})

\* advanced_search sends its report
SearchReply ==
    /\ arg # None
    /\ res = None
    /\ res' = Some(search_reply(arg[1].records, arg[1].query))
    /\ Frame

NextReport == SearchReply

SpecReport == InitReport /\ [][NextReport]_vars

-----------------------------------------------------------------------------
(* normalize_name: a name is the sequence of its letters (one string for each
   Cyrillic letter, in Latin transcription; upper case is the upper-case string) *)

LowerLetters == <<"a", "b", "d", "e", "g", "i", "k", "l", "m", "n", "o", "p", "q", "r", "s", "sh", "t", "u", "v", "y", "ya", "yu">>
UpperLetters == <<"A", "B", "D", "E", "G", "I", "K", "L", "M", "N", "O", "P", "Q", "R", "S", "SH", "T", "U", "V", "Y", "YA", "YU">>

LowerLetter(c) == IF \E i \in 1..Len(UpperLetters) : UpperLetters[i] = c
                  THEN LowerLetters[CHOOSE i \in 1..Len(UpperLetters) : UpperLetters[i] = c]
                  ELSE c
UpperLetter(c) == IF \E i \in 1..Len(LowerLetters) : LowerLetters[i] = c
                  THEN UpperLetters[CHOOSE i \in 1..Len(LowerLetters) : LowerLetters[i] = c]
                  ELSE c

\* str.lower(), str.upper(), str.capitalize()
lower(name) == [i \in 1..Len(name) |-> LowerLetter(name[i])]
upper(name) == [i \in 1..Len(name) |-> UpperLetter(name[i])]
capitalize(name) == [i \in 1..Len(name) |-> IF i = 1 THEN UpperLetter(name[i])
                                             ELSE LowerLetter(name[i])]

\* str.endswith(suffix)
endswith(name, suffix) ==
    Len(name) >= Len(suffix) /\ SubSeq(name, Len(name) - Len(suffix) + 1, Len(name)) = suffix

\* the known names of normalize_name
MappingKeys == {<<"i", "n", "t", "i", "g", "a", "m", "u">>,
                <<"i", "n", "t", "i", "g", "a", "m", "a">>,
                <<"b", "a", "l", "t", "i", "k", "i">>,
                <<"b", "a", "l", "t", "i", "k", "e">>,
                <<"b", "a", "l", "t", "i", "k", "u">>,
                <<"p", "e", "t", "r", "o", "v", "u">>,
                <<"p", "e", "t", "r", "o", "v", "a">>,
                <<"r", "u", "s", "t", "a", "m", "u">>,
                <<"r", "u", "s", "t", "a", "m", "a">>}

mappings(k) ==
    CASE k = <<"i", "n", "t", "i", "g", "a", "m", "u">> -> capitalize(<<"i", "n", "t", "i", "g", "a", "m">>)
      [] k = <<"i", "n", "t", "i", "g", "a", "m", "a">> -> capitalize(<<"i", "n", "t", "i", "g", "a", "m">>)
      [] k = <<"b", "a", "l", "t", "i", "k", "i">> -> capitalize(<<"b", "a", "l", "t", "i", "k", "a">>)
      [] k = <<"b", "a", "l", "t", "i", "k", "e">> -> capitalize(<<"b", "a", "l", "t", "i", "k", "a">>)
      [] k = <<"b", "a", "l", "t", "i", "k", "u">> -> capitalize(<<"b", "a", "l", "t", "i", "k", "a">>)
      [] k = <<"p", "e", "t", "r", "o", "v", "u">> -> capitalize(<<"p", "e", "t", "r", "o", "v">>)
      [] k = <<"p", "e", "t", "r", "o", "v", "a">> -> capitalize(<<"p", "e", "t", "r", "o", "v">>)
      [] k = <<"r", "u", "s", "t", "a", "m", "u">> -> capitalize(<<"r", "u", "s", "t", "a", "m">>)
      [] k = <<"r", "u", "s", "t", "a", "m", "a">> -> capitalize(<<"r", "u", "s", "t", "a", "m">>)

\* the suffixes normalize_name strips
OneLetterEndings == {<<"u">>, <<"a">>, <<"e">>}
TwoLetterEndings == {<<"o", "m">>, <<"y", "m">>}

\* normalize_name with the known names looked up before the endings are stripped
normalize_name_tableFirst(name) ==
    LET name_lower == lower(name)
    IN  IF name_lower \in MappingKeys THEN mappings(name_lower)
        ELSE IF \E e \in TwoLetterEndings : endswith(name_lower, e)
        THEN capitalize(SubSeq(name, 1, Len(name) - 2))
        ELSE IF \E e \in OneLetterEndings : endswith(name_lower, e)
        THEN capitalize(SubSeq(name, 1, Len(name) - 1))
        ELSE capitalize(name)

\* normalize_name(name)
normalize_name(name) ==
    LET name_lower == lower(name)
    IN  IF \E e \in OneLetterEndings \cup TwoLetterEndings : endswith(name_lower, e)
        THEN LET base == IF \E e \in TwoLetterEndings : endswith(name_lower, e)
                         THEN SubSeq(name, 1, Len(name) - 2)
                         ELSE SubSeq(name, 1, Len(name) - 1)
             IN  capitalize(base)
        ELSE IF name_lower \in MappingKeys THEN mappings(name_lower)
        ELSE capitalize(name)

\* names the known names do not list
OtherNames == {<<"s", "i", "d", "o", "r", "o", "v", "u">>,
               <<"s", "i", "d", "o", "r", "o", "v", "a">>,
               <<"s", "i", "d", "o", "r", "o", "v">>,
               <<"i", "v", "a", "n", "o", "m">>,
               <<"b", "e", "l", "y", "m">>,
               <<"sh", "a", "m", "i", "l", "yu">>,
               <<"a", "n", "n", "a">>,
               <<"o", "l", "e", "g">>,
               <<"b", "a", "l", "t", "i", "k", "a">>,
               <<"i", "n", "t", "i", "g", "a", "m">>,
               <<"p", "e", "t", "r", "o", "v">>,
               <<"r", "u", "s", "t", "a", "m">>}

\* every name as typed in lower case, capitalized and in upper case
NamesTyped == UNION {{n, capitalize(n), upper(n)} : n \in MappingKeys \cup OtherNames}

InitNames == InitPure(NamesTyped)

\* normalize_name(name) is called
NormalizeName ==
    /\ arg # None
    /\ res = None
    /\ res' = Some(normalize_name(arg[1]))
    /\ Frame

NextNames == NormalizeName

SpecNames == InitNames /\ [][NextNames]_vars

-----------------------------------------------------------------------------
(* The start of the process under a schedule of what befalls each run of
   initialize_services(), and the first requests after it *)

Schedules == [1..STOP_AFTER_ATTEMPT -> StartupFaults]

InitBoot == InitState({<<>>, <<HEADER, OldRow>>}, {NoFile}) /\ arg \in {Some(sc) : sc \in Schedules}
               /\ res = None

\* the module is loaded and main() runs up to run_polling
Boot == Startup(Retrying(arg[1], 1).f)

NextBoot ==
    \/ Boot
    \/ Start("u1")
    \/ \E answer \in {FinSalary, Clarify} :
          /\ WithinBudget("u1", TxtPayment, answer, "none", MaxAppends)
          /\ HandleMessage("u1", TxtPayment, answer, "none")
    \/ ShowContextHistory("u1", "none")

SpecBoot == InitBoot /\ [][NextBoot]_vars

-----------------------------------------------------------------------------
(* show_analytics as a function of the snapshot, the period and the clock.
   An instant is a number of half hours of UTC since the start of 01.01.2026
   in UTC; an amount cell is Some(n) when get_all_records made a number of it and
   None when it left text *)

\* the day of the year 2026 a date cell names (days of 2025 below 1); None for
\* a cell that '%d.%m.%Y' does not parse
DayOfCell(cell) == CASE cell = "15.11.2025" -> Some(-46)
                     [] cell = "01.10.2026" -> Some(274)
                     [] cell = "03.10.2026" -> Some(276)
                     [] cell = "26.10.2026" -> Some(299)
                     [] cell = "27.10.2026" -> Some(300)
                     [] cell = "01.11.2026" -> Some(305)
                     [] cell = "02.11.2026" -> Some(306)
                     [] OTHER -> None

\* the instant of 00:00 of a day in Moscow: .dt.tz_localize(MOSCOW_TZ)
tz_localize(day) == DayLen * (day - 1) - MSK_OFFSET

\* get_moscow_time() at hour h (in half hours) of a day
MoscowTime(day, h) == DayLen * (day - 1) + h - MSK_OFFSET

MonthNames == {"yanvar", "fevral", "mart", "aprel", "may", "iyun", "iyul", "avgust",
               "sentyabr", "oktyabr", "noyabr", "dekabr"}

\* the day of the year of the first day of the month named, in 2026
FirstDay(period) == CASE period = "yanvar" -> 1
                      [] period = "fevral" -> 32
                      [] period = "mart" -> 60
                      [] period = "aprel" -> 91
                      [] period = "may" -> 121
                      [] period = "iyun" -> 152
                      [] period = "iyul" -> 182
                      [] period = "avgust" -> 213
                      [] period = "sentyabr" -> 244
                      [] period = "oktyabr" -> 274
                      [] period = "noyabr" -> 305
                      [] period = "dekabr" -> 335

\* start_date of show_analytics; period is None or Some(text)
start_date(period, at) ==
    IF period = Some("nedelya") THEN at - WEEK_DAYS * DayLen
    ELSE IF period = Some("mesyac") THEN at - MONTH_DAYS * DayLen
    ELSE IF period # None /\ period[1] \in MonthNames
    THEN DayLen * (FirstDay(period[1]) - 1) - LMT_OFFSET   \* datetime(..., tzinfo=MOSCOW_TZ)
    ELSE at - MONTH_DAYS * DayLen

RECURSIVE SumCells(_)
SumCells(rows) == IF rows = <<>> THEN 0 ELSE rows[1][5][1] + SumCells(Tail(rows))

NoAnalytics(status) ==
    [status |-> status, rows |-> <<>>, income |-> 0, expense |-> 0, net |-> 0, count |-> 0,
     categories |-> <<>>]

\* show_analytics with the rows of unparseable amount left out
show_analytics_report_numericOnly(finance_records, period, at) ==
    LET dated == SelectSeq(finance_records, LAMBDA row : DayOfCell(row[1]) # None)
        recent == SelectSeq(dated, LAMBDA row : row[5] # None /\
                            tz_localize(DayOfCell(row[1])[1]) >= start_date(period, at))
        incomes == SelectSeq(recent, LAMBDA row : row[5][1] > 0)
        expenses == SelectSeq(recent, LAMBDA row : row[5][1] < 0)
    IN  IF finance_records = <<>> THEN NoAnalytics("no_data")
        ELSE IF recent = <<>> THEN NoAnalytics("no_period_data")
        ELSE [status |-> "report", rows |-> recent,
              income |-> SumCells(incomes), expense |-> SumCells(expenses),
              net |-> SumCells(incomes) + SumCells(expenses), count |-> Len(recent),
              categories |->
                 [c \in {row[3] : row \in {expenses[i] : i \in 1..Len(expenses)}} |->
                     SumCells(SelectSeq(expenses, LAMBDA row : row[3] = c))]]

\* show_analytics from the snapshot to the report: [status, rows, income, expense,
\* net, count, categories]
show_analytics_report(finance_records, period, at) ==
    LET dated == SelectSeq(finance_records, LAMBDA row : DayOfCell(row[1]) # None)
        recent == SelectSeq(dated, LAMBDA row :
                            tz_localize(DayOfCell(row[1])[1]) >= start_date(period, at))
        incomes == SelectSeq(recent, LAMBDA row : row[5][1] > 0)
        expenses == SelectSeq(recent, LAMBDA row : row[5][1] < 0)
    IN  IF finance_records = <<>> THEN NoAnalytics("no_data")
        ELSE IF recent = <<>> THEN NoAnalytics("no_period_data")
        ELSE IF \E i \in 1..Len(recent) : recent[i][5] = None
        THEN NoAnalytics("error")   \* text > 0 raises TypeError, caught at the end
        ELSE [status |-> "report", rows |-> recent,
              income |-> SumCells(incomes), expense |-> SumCells(expenses),
              net |-> SumCells(incomes) + SumCells(expenses), count |-> Len(recent),
              categories |->
                 [c \in {row[3] : row \in {expenses[i] : i \in 1..Len(expenses)}} |->
                     SumCells(SelectSeq(expenses, LAMBDA row : row[3] = c))]]

GoodSheet == << <<"15.11.2025", "Rashod", "Taksi", "Yandex", Some(-900), "">>,
                <<"01.10.2026", "Popolnenie", "-", "Kassa", Some(7000), "">>,
                <<"03.10.2026", "Rashod", "Zarplaty sotrudnikam", "Petrov", Some(-4000), "">>,
                <<"26.10.2026", "Rashod", "Taksi", "Yandex", Some(-500), "">>,
                <<"27.10.2026", "Rashod", "Zarplaty sotrudnikam", "Ivanov", Some(-3000), "">>,
                <<"01.11.2026", "Popolnenie", "-", "Kassa", Some(2000), "">>,
                <<"02.11.2026", "Rashod", "Taksi", "Yandex", Some(-300), "">> >>

\* rows typed into the sheet by hand: a date and an amount that do not parse
BadDateRow == <<"vchera", "Rashod", "Taksi", "Yandex", Some(-100), "">>
BadAmountRow == <<"02.11.2026", "Rashod", "Taksi", "Yandex", None, "">>

AnalyticsSheets == {GoodSheet, Append(GoodSheet, BadDateRow), Append(GoodSheet, BadAmountRow),
                    <<BadDateRow>> \o GoodSheet \o <<BadAmountRow>>}

Periods == {None, Some("nedelya"), Some("mesyac"), Some("oktyabr"), Some("noyabr"),
            Some("dekabr"), Some("god")}

\* the clock: 00:00 or 12:00 of 02.11.2026 or of the day after
Clocks == {MoscowTime(d, h) : d \in {306, 307}, h \in {0, 24}}

InitAnalytics == InitPure({[records |-> r, period |-> p, at |-> t] :
                              r \in AnalyticsSheets, p \in Periods, t \in Clocks})

\* show_analytics builds its report
BuildAnalytics ==
    /\ arg # None
    /\ res = None
    /\ res' = Some(show_analytics_report(arg[1].records, arg[1].period, arg[1].at))
    /\ Frame

NextAnalytics == BuildAnalytics

SpecAnalytics == InitAnalytics /\ [][NextAnalytics]_vars

-----------------------------------------------------------------------------
(* Utterances only: u1 commits a record, u1 and u2 say commands and sentences *)
(* the classifier answers with a clarification, while the cache clock runs    *)

CommandTexts == Texts \ {TxtPayment}

InitUtter == InitWith({<<HEADER, OldRow>>}, {NoFile})

NextUtter ==
    \/ Startup("none")
    \/ \E f \in {"none", "append_row"} :
          /\ WithinBudget("u1", TxtPayment, FinSalary, f, MaxAppends)
          /\ HandleMessage("u1", TxtPayment, FinSalary, f)
    \/ \E u \in ALLOWED_USERS, text \in CommandTexts, f \in ReadFaults :
          HandleMessage(u, text, Clarify, f)
    \/ \E u \in ALLOWED_USERS, text \in CommandTexts, f \in ReadFaults \cup {"transcribe"} :
          HandleVoice(u, text, Clarify, f)
    \/ \E u \in ALLOWED_USERS, f \in {"none", "nlu"} :
          HandleMessage(u, TxtPayment, Clarify, f)
    \/ \E u \in ALLOWED_USERS, f \in {"none", "nlu"} :
          HandleVoice(u, TxtPayment, Clarify, f)
    \/ Tick

SpecUtter == InitUtter /\ [][NextUtter]_vars

-----------------------------------------------------------------------------
(* Deleting the last operation: u1 and u2 commit records, u1 presses delete *)

InitDelete == InitWith({<<HEADER, OldRow>>}, {NoFile})

NextDelete ==
    \/ Startup("none")
    \/ \E f \in {"none", "append_row"} :
          /\ WithinBudget("u1", TxtPayment, FinSalary, f, MaxAppends + 1)
          /\ HandleMessage("u1", TxtPayment, FinSalary, f)
    \/ \E f \in {"none", "append_row"} :
          /\ WithinBudget("u2", TxtPayment, FinInflow, f, MaxAppends + 1)
          /\ HandleMessage("u2", TxtPayment, FinInflow, f)
    \/ \E f \in ReadFaults : ShowContextHistory("u2", f)
    \/ \E f \in ButtonFaults("quick_delete") : HandleCallbackQuery("u1", "quick_delete", f)

SpecDelete == InitDelete /\ [][NextDelete]_vars

-----------------------------------------------------------------------------
(* Clearing the sheet: one user, a sheet of no, one or two data rows *)

OldRow2 == <<"01.11.2026", "Popolnenie", "Vyruchka", "Kassa", 700, "">>

InitClear == InitWith({<<HEADER>>, <<HEADER, OldRow>>, <<HEADER, OldRow, OldRow2>>}, {NoFile})

NextClear ==
    \/ Startup("none")
    \/ Start("u1")
    \/ ClearTableCommand("u1")
    \/ \E answer \in {FinSalary, FinUnsure}, f \in {"none", "append_row"} :
          /\ WithinBudget("u1", TxtPayment, answer, f, MaxAppends)
          /\ HandleMessage("u1", TxtPayment, answer, f)
    \/ \E f \in ReadFaults : ShowContextHistory("u1", f)
    \/ \E data \in MainButtons : \E f \in ButtonFaults(data) :
          HandleCallbackQuery("u1", data, f)

SpecClear == InitClear /\ [][NextClear]_vars

-----------------------------------------------------------------------------
(* The allow-list: a chat where the allow-listed u1 has the menus opened and the
   outsider u3 sends every kind of update *)

InitGate == InitWith({<<HEADER, OldRow>>}, {NoFile})

NextGate ==
    \/ Startup("none")
    \/ Start("u1")
    \/ ClearTableCommand("u1")
    \/ \E answer \in {FinSalary, Clarify} : HandleMessage("u3", TxtPayment, answer, "none")
    \/ \E f \in {"none", "transcribe"} : HandleVoice("u3", TxtPayment, FinSalary, f)
    \/ Start("u3")
    \/ \E hasArgs \in BOOLEAN, f \in ReadFaults : AdvancedSearch("u3", hasArgs, f)
    \/ \E f \in ReadFaults : ShowContextHistory("u3", f)
    \/ \E f \in ReadFaults : ShowAnalytics("u3", f)
    \/ \E f \in ReadFaults : CreateBackup("u3", f)
    \/ ClearTableCommand("u3")
    \/ \E data \in Buttons : \E f \in ButtonFaults(data) : HandleCallbackQuery("u3", data, f)
    \/ Tick

SpecGate == InitGate /\ [][NextGate]_vars

-----------------------------------------------------------------------------
(* The message pipeline on whatever the capability returns: one user *)

InitNlu == InitWith({<<HEADER, OldRow>>}, {NoFile})

NextNlu ==
    \/ Startup("none")
    \/ \E answer \in NluAnswers \cup BadAnswers \cup OddAnswers,
          f \in {"none", "nlu", "append_row"} :
          /\ WithinBudget("u1", TxtPayment, answer, f, MaxAppends)
          /\ HandleMessage("u1", TxtPayment, answer, f)
    \/ \E answer \in NluAnswers \cup BadAnswers \cup OddAnswers,
          f \in {"none", "nlu", "transcribe"} :
          /\ WithinBudget("u1", TxtPayment, answer, f, MaxAppends)
          /\ HandleVoice("u1", TxtPayment, answer, f)
    \/ \E f \in ReadFaults : ShowContextHistory("u1", f)
    \/ \E data \in {"quick_delete", "confirm_finance_yes", "confirm_finance_no"} :
          \E f \in ButtonFaults(data) : HandleCallbackQuery("u1", data, f)

SpecNlu == InitNlu /\ [][NextNlu]_vars

-----------------------------------------------------------------------------
(* What the claims speak of *)

Serving == phase = "serving"

\* the finance candidates the classifier can return, by their confidence
Candidates == {a \in NluAnswers : a.type = "finance"}
Confident(a) == Get(a, "confidence", 10) >= CONFIDENCE_THRESHOLD

\* process_analysis_result run in the current state
Handle(user_id, analysis, f) == process_analysis_result(State, analysis, user_id, f)

OldList(user_id) == IF user_id \in DOMAIN USER_CONTEXT THEN USER_CONTEXT[user_id] ELSE <<>>

\* in ctx the user's list has gained line at its tail, losing old lines only at
\* its head and only to stay within the limit
GainsOneLine(ctx, user_id, line) ==
    /\ user_id \in DOMAIN ctx
    /\ LET old == OldList(user_id)
           new == ctx[user_id]
       IN  /\ Len(new) <= CONTEXT_LIMIT
           /\ \E k \in 0..Len(old) :
                 /\ new = SubSeq(old, k + 1, Len(old)) \o <<line>>
                 /\ k = 0 \/ Len(new) = CONTEXT_LIMIT

OthersKept(ctx, user_id) ==
    /\ DOMAIN ctx \subseteq DOMAIN USER_CONTEXT \cup {user_id}
    /\ \A v \in DOMAIN USER_CONTEXT \ {user_id} :
          v \in DOMAIN ctx /\ ctx[v] = USER_CONTEXT[v]

\* the six fields the ledger is to hold for a record written today
SixFields(data) == <<DateStr(today), data.operation_type, data.category,
                     data.description, data.amount,
                     IF "comment" \in DOMAIN data THEN data.comment ELSE "">>

OneRowAppended(led, data) == led = Append(ledger, SixFields(data))

-----------------------------------------------------------------------------
(* C1 *)

\* C1 as stated: every finance candidate with confidence >= 0.7 that
\* process_analysis_result handles appends exactly one row and adds exactly one
\* line at the tail of the acting user's list (at most 10 long), no other user's
\* list changing.
C1_AlwaysOneRowOneLine ==
    Serving =>
       \A u \in ALLOWED_USERS, a \in Candidates, f \in WriteFaults :
          Confident(a) =>
             LET r == Handle(u, a, f)
             IN  /\ OneRowAppended(r.s.led, a)
                 /\ GainsOneLine(r.s.ctx, u, ContextLine(a))
                 /\ OthersKept(r.s.ctx, u)

\* C1 amended: such a candidate appends at most one row and never touches another
\* user's list; when add_finance_record reports success exactly one row is
\* appended and the acting user's list gains exactly one line at its tail (at
\* most 10 long); when it reports failure the list gains at most that one line.
C1_OneRowOneLineOnSuccess ==
    Serving =>
       \A u \in ALLOWED_USERS, a \in Candidates, f \in WriteFaults :
          Confident(a) =>
             LET r == Handle(u, a, f)
             IN  /\ OthersKept(r.s.ctx, u)
                 /\ r.s.led = ledger \/ OneRowAppended(r.s.led, a)
                 /\ r.reply \in {"recorded", "write_failed"}
                 /\ r.reply = "recorded"
                       => /\ OneRowAppended(r.s.led, a)
                          /\ GainsOneLine(r.s.ctx, u, ContextLine(a))
                 /\ r.reply = "write_failed"
                       => \/ r.s.ctx = USER_CONTEXT
                          \/ GainsOneLine(r.s.ctx, u, ContextLine(a))

\* u1 has committed onto the full list an earlier run left, u2 holding a list too
C1_Witness ==
    /\ out.reply = "recorded"
    /\ DOMAIN USER_CONTEXT = {"u1", "u2"}
    /\ Len(USER_CONTEXT["u1"]) = CONTEXT_LIMIT
    /\ USER_CONTEXT["u1"][CONTEXT_LIMIT] = ContextLine(FinSalary)
    /\ USER_CONTEXT["u1"][1] = OldLine(2)

-----------------------------------------------------------------------------
(* C2 *)

\* C2: a finance candidate with confidence < 0.7 is answered with the
\* confirmation prompt, and when the user then presses "yes" on that prompt the
\* candidate is committed: the ledger gains exactly one row.
C2_ConfirmedIsCommitted ==
    Serving =>
       /\ \A u \in ALLOWED_USERS, a \in Candidates :
             ~Confident(a) =>
                LET r == Handle(u, a, "none")
                IN  r.reply = "confirm_prompt" /\ "confirm_finance" \in r.s.kb
       /\ ("confirm_finance" \in keyboards /\ out.reply = "confirm_prompt")
             => LET pressed == callback_body(State, "confirm_finance_yes", "none")
                IN  Len(pressed.s.led) = Len(ledger) + 1


\* "yes" was pressed on the prompt and nothing has been appended
C2_Witness ==
    /\ out.reply = "unknown_confirmation"
    /\ "confirm_finance" \in keyboards
    /\ appended = 0

-----------------------------------------------------------------------------
(* C3 *)

Untouched(s) ==
    /\ s.led = ledger
    /\ s.ctx = USER_CONTEXT
    /\ s.file = contextFile
    /\ s.last = USER_LAST_OPERATIONS

\* C3: a finance candidate with confidence < 0.7 appends nothing to the ledger
\* and changes neither the context store nor LastOperation when it is put up for
\* confirmation, and pressing "no" on the prompt changes none of them either.
C3_NothingBeforeConfirmation ==
    Serving =>
       /\ \A u \in ALLOWED_USERS, a \in Candidates, f \in WriteFaults :
             ~Confident(a) =>
                LET r == Handle(u, a, f)
                IN  r.reply = "confirm_prompt" /\ Untouched(r.s)
       /\ "confirm_finance" \in keyboards
             => LET pressed == callback_body(State, "confirm_finance_no", "none")
                IN  pressed.reply = "cancelled" /\ Untouched(pressed.s)

\* the prompt was shown and "no" was pressed on it
C3_Witness ==
    /\ out.reply = "cancelled"
    /\ "confirm_finance" \in keyboards
    /\ "confirm_clear" \notin keyboards

-----------------------------------------------------------------------------
(* C4 *)

\* C4: the cache never holds a snapshot fetched before the latest mutation of
\* the ledger (append, edit, delete, delete-last, clear), so every
\* get_cached_records() returns the ledger's records as they are now.
C4_CacheNeverStale ==
    /\ SHEETS_CACHE # None => SHEETS_CACHE[1] = get_all_records(ledger)
    /\ Serving =>
          LET got == get_cached_records(State, "none")
          IN  got.ok /\ got.s.cache = Some(get_all_records(ledger))

\* a snapshot taken of a ledger this process has changed
C4_Witness ==
    /\ SHEETS_CACHE # None
    /\ out.reply = "report"
    /\ ledger # <<HEADER, OldRow>>
    /\ Len(ledger) >= 2

-----------------------------------------------------------------------------
(* C5 *)

\* C5: invalidate_cache() followed by get_cached_records() makes exactly one
\* remote fetch; a further get_cached_records() while now - fetched_at < TTL and
\* nothing was invalidated makes no fetch and returns the same snapshot, the
\* empty one included.
C5_OneFetchThenHits ==
    Serving =>
       /\ LET first == get_cached_records(invalidate_cache(State), "none")
              second == get_cached_records(first.s, "none")
          IN  /\ first.s.fetches = 1
              /\ second.s.fetches = 1
              /\ second.s.cache = first.s.cache
       /\ (SHEETS_CACHE # None /\ CACHE_TIMESTAMP # None
              /\ now - CACHE_TIMESTAMP[1] < CACHE_TIMEOUT)
             => LET got == get_cached_records(State, "none")
                IN  /\ got.s.fetches = 0
                    /\ got.s.cache = SHEETS_CACHE
                    /\ got.s.ts = CACHE_TIMESTAMP

\* a read served from a cached empty snapshot, later than its fetch
C5_Witness ==
    /\ SHEETS_CACHE = Some(<<>>)
    /\ out.reply = "report"
    /\ out.fetches = 0
    /\ now > CACHE_TIMESTAMP[1]
    /\ now - CACHE_TIMESTAMP[1] < CACHE_TIMEOUT

-----------------------------------------------------------------------------
(* C6 *)

CacheAge == now - CACHE_TIMESTAMP[1]

Refetched(got) ==
    /\ got.s.fetches = 1
    /\ got.s.cache = Some(get_all_records(ledger))
    /\ got.s.ts = Some(now)

Served(got) ==
    /\ got.s.fetches = 0
    /\ got.s.cache = SHEETS_CACHE
    /\ got.s.ts = CACHE_TIMESTAMP

\* C6 as stated: a snapshot is fresh only while now - fetched_at < TTL; a
\* get_cached_records() at now - fetched_at = TTL or later fetches and replaces
\* the snapshot and its timestamp.
C6_StaleAtTimeout ==
    (Serving /\ SHEETS_CACHE # None /\ CACHE_TIMESTAMP # None)
       => LET got == get_cached_records(State, "none")
          IN  /\ CacheAge < CACHE_TIMEOUT => Served(got)
              /\ CacheAge >= CACHE_TIMEOUT => Refetched(got)

\* C6 amended: a snapshot is fresh while now - fetched_at <= TTL; a
\* get_cached_records() fetches and replaces the snapshot and its timestamp only
\* when now - fetched_at > TTL.
C6_StaleAfterTimeout ==
    (Serving /\ SHEETS_CACHE # None /\ CACHE_TIMESTAMP # None)
       => LET got == get_cached_records(State, "none")
          IN  /\ CacheAge <= CACHE_TIMEOUT => Served(got)
              /\ CacheAge > CACHE_TIMEOUT => Refetched(got)

\* a snapshot exactly TTL old, left by a read
C6_Witness ==
    /\ SHEETS_CACHE # None
    /\ CACHE_TIMESTAMP # None
    /\ now - CACHE_TIMESTAMP[1] = CACHE_TIMEOUT
    /\ out.reply = "report"

-----------------------------------------------------------------------------
(* C7 *)

\* C7: after a successful add_finance_record(r) the next freshly fetched
\* snapshot contains a row whose six fields are today's date, r's operation
\* type, category, description and amount, and r's comment or ''.
C7_RoundTrip ==
    Serving =>
       \A a \in {FinSalary, FinInflow} :
          LET r == add_finance_record(State, a, "u1", "none")
              snapshot == get_cached_records(invalidate_cache(r.s), "none").s.cache[1]
          IN  r.ok => \E i \in 1..Len(snapshot) : snapshot[i] = SixFields(a)


\* a write reported as recorded whose fresh snapshot is empty
C7_Witness ==
    /\ out.reply = "recorded"
    /\ SHEETS_CACHE = Some(<<>>)
    /\ Len(ledger) = 1

-----------------------------------------------------------------------------
(* C8 *)

\* C8: when the remote append fails, add_finance_record returns failure and the
\* acting user's context is unchanged in memory and in the file.
C8_AppendFailureLeavesContext ==
    Serving =>
       \A u \in ALLOWED_USERS, a \in Candidates :
          LET r == add_finance_record(State, a, u, "append_row")
          IN  /\ ~r.ok
              /\ r.s.ctx = USER_CONTEXT
              /\ r.s.file = contextFile
              /\ Confident(a) => Handle(u, a, "append_row").reply = "write_failed"

\* a write that failed before any fetch, on a context store that holds lists
C8_Witness ==
    /\ out.reply = "write_failed"
    /\ out.fetches = 0
    /\ USER_CONTEXT # EmptyStore

-----------------------------------------------------------------------------
(* C9 *)

\* C9: whenever add_finance_record reports failure, whether the append, the
\* re-fetch after it or the writing of the context file failed, neither
\* USER_CONTEXT nor USER_LAST_OPERATIONS differs from before the call.
C9_FailureLeavesMemory ==
    Serving =>
       \A u \in ALLOWED_USERS, a \in Candidates, f \in WriteFaults :
          LET r == add_finance_record(State, a, u, f)
          IN  ~r.ok => r.s.ctx = USER_CONTEXT /\ r.s.last = USER_LAST_OPERATIONS


\* a write reported as failed that left its line and its LastOperation in memory
C9_Witness ==
    /\ out.reply = "write_failed"
    /\ USER_LAST_OPERATIONS # EmptyStore
    /\ contextFile.data # USER_CONTEXT

-----------------------------------------------------------------------------
(* C10 *)

\* C10: started from an absent context file, every user's list stays at most 10
\* long, in memory and in the file; appending to a list of exactly 10 drops
\* its oldest line, keeps the other nine in order and puts the new line last.
C10_TenLinesOldestDropped ==
    /\ \A u \in DOMAIN USER_CONTEXT : Len(USER_CONTEXT[u]) <= CONTEXT_LIMIT
    /\ \A u \in DOMAIN contextFile.data : Len(contextFile.data[u]) <= CONTEXT_LIMIT
    /\ Serving =>
          \A a \in {FinSalary, FinInflow} :
             LET old == OldList("u1")
                 r == add_finance_record(State, a, "u1", "none")
                 new == r.s.ctx["u1"]
             IN  /\ r.ok
                 /\ Len(old) = CONTEXT_LIMIT
                       => /\ Len(new) = CONTEXT_LIMIT
                          /\ SubSeq(new, 1, CONTEXT_LIMIT - 1) = Tail(old)
                          /\ new[CONTEXT_LIMIT] = ContextLine(a)

\* a full list of lines of both kinds, just written to
C10_Witness ==
    /\ "u1" \in DOMAIN USER_CONTEXT
    /\ Len(USER_CONTEXT["u1"]) = CONTEXT_LIMIT
    /\ USER_CONTEXT["u1"][1] # USER_CONTEXT["u1"][CONTEXT_LIMIT]
    /\ contextFile.data = USER_CONTEXT
    /\ out.reply = "recorded"

-----------------------------------------------------------------------------
(* C11 *)

\* C11: after every completed update_user_context the context file holds the
\* entire in-memory store, every user's list, so that load_context at the next
\* start of the process restores exactly that store; with no file the store
\* starts empty.
C11_FileHoldsWholeStore ==
    /\ (phase = "boot" /\ contextFile.state = "absent")
          => load_context(contextFile, USER_CONTEXT) = EmptyStore
    /\ Serving =>
          \A u \in ALLOWED_USERS, a \in {FinSalary, FinInflow} :
             LET r == update_user_context(State, u, [data |-> a], "none")
             IN  /\ r.ok
                 /\ r.s.file.state = "ok"
                 /\ DOMAIN r.s.file.data = DOMAIN USER_CONTEXT \cup {u}
                 /\ load_context(r.s.file, EmptyStore) = r.s.ctx
    /\ (Serving /\ out.reply = "recorded")
          => load_context(contextFile, EmptyStore) = USER_CONTEXT

\* the process was started again and holds the lists both users had written
C11_Witness ==
    /\ Serving
    /\ USER_LAST_OPERATIONS = EmptyStore
    /\ DOMAIN USER_CONTEXT = {"u1", "u2"}
    /\ USER_CONTEXT = contextFile.data

-----------------------------------------------------------------------------
(* C12 *)

AllDone == \A u \in ALLOWED_USERS : tasks[u].pc = "done"

HoldsLine(store, user_id, line) ==
    /\ user_id \in DOMAIN store
    /\ \E i \in 1..Len(store[user_id]) : store[user_id][i] = line

\* C12: however the handlers of different users' messages interleave, no context
\* update is lost: once all have finished, the in-memory store and the context
\* file hold the line of every user whose operation was committed, and the store
\* still holds every line it held when each message arrived.
C12_NoLostUpdate ==
    (Serving /\ AllDone) =>
       \A u \in ALLOWED_USERS :
          /\ tasks[u].reply = "recorded"
                => /\ HoldsLine(USER_CONTEXT, u, ContextLine(tasks[u].answer))
                   /\ HoldsLine(contextFile.data, u, ContextLine(tasks[u].answer))
          /\ \A v \in DOMAIN tasks[u].seen :
                \A i \in 1..Len(tasks[u].seen[v]) :
                   HoldsLine(USER_CONTEXT, v, tasks[u].seen[v][i])

\* both messages arrived before either was committed, and both were committed
C12_Witness ==
    /\ AllDone
    /\ \A u \in ALLOWED_USERS : tasks[u].reply = "recorded" /\ tasks[u].seen = EmptyStore

-----------------------------------------------------------------------------
(* C13 *)

\* C13: the refresh of the cache (remote fetch, then replacement of snapshot and
\* timestamp) is exclusive among the handlers in flight: no handler is ever
\* suspended between its fetch and its replacement, so no snapshot fetched
\* before a mutation's invalidation is installed after it, and a held snapshot
\* is never older than the ledger.
C13_RefreshIsExclusive ==
    /\ \A u \in Users : tasks[u].pc # "fetched"
    /\ SHEETS_CACHE # None => SHEETS_CACHE[1] = get_all_records(ledger)

\* a reader whose coroutine began before a writer's commit reads after it
C13_Witness ==
    /\ tasks["u1"].reply = "recorded"
    /\ tasks["u2"].pc = "replying"
    /\ tasks["u2"].reply = "report"
    /\ tasks["u2"].seen = EmptyStore
    /\ out = [reply |-> "report", fetches |-> 0, nlu |-> 0]
    /\ SHEETS_CACHE # None

-----------------------------------------------------------------------------
(* C14 *)

CommandOrder == <<"recipients", "suppliers", "categories", "analytics", "search",
                  "history", "backup">>

PhrasesOfCommand(command) ==
    CASE command = "recipients" -> RecipientPhrases
      [] command = "suppliers"  -> SupplierPhrases
      [] command = "categories" -> CategoryPhrases
      [] command = "analytics"  -> AnalyticsPhrases
      [] command = "search"     -> SearchPhrases
      [] command = "history"    -> HistoryPhrases
      [] command = "backup"     -> BackupPhrases

\* the positions in the order whose phrase set has a phrase in the text
Hits(text) ==
    {i \in 1..Len(CommandOrder) : text.phrases \cap PhrasesOfCommand(CommandOrder[i]) # {}}

\* C14: parse_voice_command returns the command of the first phrase set, in the
\* order recipients, suppliers, categories, analytics, search, history, backup,
\* that has a phrase in the lower-cased text, and no match when none has; the
\* text "analiz poluchateley po postavschiku", which holds a recipients and a
\* suppliers phrase, resolves to recipients.
C14_FirstMatchInOrder ==
    res # None =>
       LET text == arg[1]
           got == res[1]
       IN  /\ Hits(text) = {} <=> got = None
           /\ Hits(text) # {}
                 => /\ got[1].type = "voice_command"
                    /\ got[1].params = text
                    /\ \E i \in Hits(text) :
                          /\ got[1].command = CommandOrder[i]
                          /\ \A j \in Hits(text) : i <= j
           /\ text = TxtRecipients => got[1].command = "recipients"

\* the example text has been routed, to recipients
C14_Witness ==
    /\ arg = Some(TxtRecipients)
    /\ res # None
    /\ res[1] # None
    /\ res[1][1].command = "recipients"
    /\ {2, 4} \subseteq Hits(TxtRecipients)

-----------------------------------------------------------------------------
(* C15 *)

\* C15: when the router matches the text, analyze_message_with_ai returns that
\* command and does not invoke the NLU capability; the capability is invoked
\* only for a text the router does not match.
C15_RouterSparesNlu ==
    res # None =>
       LET routed == parse_voice_command(arg[1].text)
           got == res[1]
       IN  /\ routed # None => got.analysis = routed[1] /\ got.nlu = 0
           /\ got.nlu > 0 => routed = None

\* a routed text was classified, the capability being ready to answer with a
\* finance candidate
C15_Witness ==
    /\ res # None
    /\ arg[1].text = TxtAnalytics
    /\ arg[1].answer = FinSalary
    /\ arg[1].f = "none"
    /\ res[1].analysis.type = "voice_command"
    /\ res[1].nlu = 0

-----------------------------------------------------------------------------
(* C16 *)

IsApology(analysis) ==
    /\ {"type", "message", "suggestions"} \subseteq DOMAIN analysis
    /\ analysis.type = "clarification"
    /\ analysis.message \in {Apology.message, ParseApology.message}
    /\ analysis.suggestions = <<>>

\* C16: whatever the NLU capability returns, text that is no JSON, JSON without
\* "type", a finance object without a required field, or no answer at all
\* because the service cannot be reached, classification yields a clarification
\* with the apology message and no suggestions, and no exception leaves
\* classification and process_analysis_result.
C16_BadAnswerGivesApology ==
    Serving =>
       \A a \in NluAnswers \cup BadAnswers, f \in {"none", "nlu"} :
          (a \in BadAnswers \/ f = "nlu")
             => /\ IsApology(analyze_message_with_ai(TxtPayment, a, f).analysis)
                /\ Classify(State, TxtPayment, a, "u1", f).reply = "clarify"

\* an exception has left process_analysis_result in handle_message
C16_Witness ==
    /\ out.reply = "raised"
    /\ out.nlu = 1

-----------------------------------------------------------------------------
(* C17, C18 *)

\* C17: when clear_table() succeeds on a sheet of the header row and n >= 0 data
\* rows, the sheet holds the header row alone and the cache is invalidated.
C17_ClearLeavesHeaderOnly ==
    (Serving /\ Len(ledger) >= 1 /\ ledger[1] = HEADER) =>
       \A f \in {"none", "get_all_values", "delete_rows"} :
          LET cleared == clear_table(State, f)
          IN  cleared.ok => /\ cleared.s.led = <<HEADER>>
                            /\ cleared.s.cache = None
                            /\ cleared.s.ts = None

\* the press of 'yes' on a sheet of two data rows reported the sheet cleared and
\* the second data row is still there
C17_Witness ==
    /\ out.reply = "cleared"
    /\ ledger = <<HEADER, OldRow2>>
    /\ SHEETS_CACHE = None /\ CACHE_TIMESTAMP = None

ClearReplies == {"cleared", "clear_failed"}

\* C18: clear_table() runs only when 'yes' is pressed on the confirmation
\* prompt of the clear command: no other button, no text and no voice message
\* reaches it, and it has not run unless the prompt was shown.
C18_ClearOnlyOnYes ==
    Serving =>
       /\ out.reply \in ClearReplies => "confirm_clear" \in keyboards
       /\ \A data \in Buttons \ {"confirm_clear_yes"} : \A f \in ButtonFaults(data) :
             LET r == callback_body(State, data, f)
             IN  r.reply \notin ClearReplies /\ (f = "none" => Len(r.s.led) >= Len(ledger) - 1)
       /\ \A text \in Texts, a \in NluAnswers :
             Classify(State, text, a, "u1", "none").reply \notin ClearReplies
       /\ LET r == callback_body(State, "confirm_clear_yes", "none")
          IN  r.reply = "cleared"

C18_Witness ==
    /\ out.reply = "cleared"
    /\ "confirm_clear" \in keyboards
    /\ "confirm_finance" \in keyboards

-----------------------------------------------------------------------------
(* C19 *)

Rejected(r) == r.reply = "denied" /\ r.s = State

\* C19: every entry point (start, search, history, analytics, backup,
\* clear_table, text, voice, button presses) rejects a sender who is not on the
\* allow-list before any core component runs: the sender is told so and nothing
\* is read, called or changed.
C19_OutsiderRejectedEverywhere ==
    Serving =>
       \A u \in Users \ ALLOWED_USERS :
          /\ Rejected(start(State, u))
          /\ Rejected(clear_table_command(State, u))
          /\ \A a \in NluAnswers : Rejected(handle_message(State, u, TxtPayment, a, "none"))
          /\ \A a \in NluAnswers : Rejected(handle_voice(State, u, TxtPayment, a, "none"))
          /\ Rejected(advanced_search(State, u, TRUE, "none"))
          /\ Rejected(show_context_history(State, u, "none"))
          /\ Rejected(show_analytics(State, u, "none"))
          /\ Rejected(create_backup(State, u, "none"))
          /\ \A data \in Buttons : Rejected(handle_callback_query(State, u, data, "none"))

\* the outsider, the only sender of commands that read, was sent a report: the
\* sheet was fetched and the cache filled for it
C19_Witness ==
    /\ out.reply = "report"
    /\ out.fetches = 1
    /\ SHEETS_CACHE = Some(<<OldRow>>)

-----------------------------------------------------------------------------
(* C20 *)

Symbols(q) == {i \in 1..Len(q) : q[i].k = "sym"}

\* C20: when the query holds '>' (or '<') followed by an integer, the rows found
\* are exactly those whose amount is above (below) that integer, whatever other
\* token the query holds; ">50000 Petrov" finds exactly the rows above 50000.
\* Stated for queries with one comparison sign.
C20_ThresholdFilterOnly ==
    (res # None /\ arg[1].records # <<>>) =>
       LET q == arg[1].query
           rows == arg[1].records
       IN  \A i \in 1..(Len(q) - 1) :
              (Symbols(q) = {i} /\ q[i + 1].k = "int")
                 => /\ res[1].status \in {"found", "nothing"}
                    /\ res[1].rows =
                          SelectSeq(rows, LAMBDA row : IF q[i].v = ">" THEN row[5] > q[i + 1].n
                                                       ELSE row[5] < q[i + 1].n)

\* the query ">50000 Petrov" on a sheet that holds a row above 50000 ended in the
\* search error
C20_Witness ==
    /\ arg = Some([query |-> <<Sym(">"), Num(50000), Word("Petrov")>>, records |-> SearchRows])
    /\ res = Some(SearchError)

-----------------------------------------------------------------------------
(* C21 *)

Range(seq) == {seq[i] : i \in 1..Len(seq)}

-----------------------------------------------------------------------------
(* C22 *)

\* C22: normalize_name looks the name up first: a name whose lower-case form is
\* one of the known names gives the base form listed for it, and the endings
\* are stripped only from names that are not listed ("Sidorovu" gives "Sidorov").
C22_TableFirst ==
    res # None =>
       LET name_lower == lower(arg[1])
       IN  /\ name_lower \in MappingKeys => res[1] = mappings(name_lower)
           /\ name_lower \notin MappingKeys => res[1] = normalize_name_tableFirst(arg[1])

\* "Baltike" is a known name listed with the base form "Baltika"; the ending was
\* stripped and "Baltik" returned
C22_Witness ==
    /\ arg = Some(<<"B", "a", "l", "t", "i", "k", "e">>)
    /\ res = Some(<<"B", "a", "l", "t", "i", "k">>)
    /\ mappings(lower(arg[1])) = <<"B", "a", "l", "t", "i", "k", "a">>

-----------------------------------------------------------------------------
(* C23 *)

\* an utterance that names a payee and holds the supplier trigger and no other
\* router phrase
SupplierPayment(text) ==
    /\ "postavschik" \in text.phrases
    /\ text.phrases \subseteq {"postavschik", "po postavschiku"}
    /\ "name" \in text.extracted

\* C23: an utterance with the supplier trigger, a name and a payment verb, such
\* as "oplata postavschiku Shamilyu 10000", comes out of classification as a
\* finance intent of the category "Oplata postavschiku", never of the salaries
\* category. Stated for a capability that answers as its prompt asks.
C23_SupplierPaymentIsFinance ==
    (res # None /\ SupplierPayment(arg[1].text) /\ arg[1].answer = FinSupplier
       /\ arg[1].f = "none")
       => /\ res[1].analysis.type = "finance"
          /\ res[1].analysis.category = "Oplata postavschiku"

\* "oplata postavschiku Shamilyu 10000" came out as the suppliers report command
\* and the capability was not asked
C23_Witness ==
    /\ res # None
    /\ arg[1].text = TxtSuppliers
    /\ arg[1].answer = FinSupplier
    /\ arg[1].f = "none"
    /\ res[1].analysis.type = "voice_command"
    /\ res[1].analysis.command = "suppliers"
    /\ res[1].nlu = 0

-----------------------------------------------------------------------------
(* C24, C25 *)

Fails(f) == f \in {"openai", "sheets", "token"}

NothingServed ==
    /\ out = NoOutput
    /\ SHEETS_CACHE = None
    /\ USER_CONTEXT = EmptyStore
    /\ USER_LAST_OPERATIONS = EmptyStore
    /\ appended = 0
    /\ contextFile = NoFile

\* C24: when the initialization of the services does not succeed (no NLU key, no
\* credentials or sheet id, the sheet out of reach, no chat token), the process
\* ends: no handler is registered and no request is ever served.
C24_FailedStartNeverServes ==
    (phase # "boot" /\ \A i \in 1..STOP_AFTER_ATTEMPT : Fails(arg[1][i]))
       => phase = "exited" /\ NothingServed

\* the process ended on a missing chat token
C24_Witness ==
    /\ phase = "exited"
    /\ arg = Some([i \in 1..STOP_AFTER_ATTEMPT |-> "token"])
    /\ NothingServed

\* C25: a failed attempt of the initialization is followed by another, up to
\* three attempts in all; the process gives up only after the last one failed,
\* and a failed first attempt followed by a successful one leads to serving.
C25_RetriedUpToThreeTimes ==
    phase # "boot" =>
       LET schedule == arg[1]
           run == Retrying(schedule, 1)
       IN  /\ (Fails(schedule[1]) /\ ~Fails(schedule[2])) => phase = "serving"
           /\ phase = "exited" => run.attempts = STOP_AFTER_ATTEMPT
           /\ (Fails(schedule[1]) /\ run.attempts < STOP_AFTER_ATTEMPT)
                 => ~Fails(schedule[run.attempts])

\* the sheet was out of reach once and would have answered next time: the process
\* ended after one attempt
C25_Witness ==
    /\ phase = "exited"
    /\ arg = Some(<<"sheets", "none", "none">>)
    /\ Retrying(arg[1], 1).attempts = 1

-----------------------------------------------------------------------------
(* C26, C27 *)

\* the start of the period as the claim gives it: the first day of a month is
\* its 00:00 in Moscow
ClaimedStart(period, at) ==
    IF period = Some("nedelya") THEN at - WEEK_DAYS * DayLen
    ELSE IF period # None /\ period[1] \in MonthNames THEN tz_localize(FirstDay(period[1]))
    ELSE at - MONTH_DAYS * DayLen

AllCellsParse(rows) ==
    \A i \in 1..Len(rows) : DayOfCell(rows[i][1]) # None /\ rows[i][5] # None

\* C26: analytics takes the rows dated on or after now - 7 days for 'week', on
\* or after now - 30 days for 'month', on or after the first day of the month
\* in the current year for a month's name, and on or after now - 30 days when
\* the period is absent or anything else.
C26_PeriodWindow ==
    (res # None /\ AllCellsParse(arg[1].records)) =>
       LET chosen == SelectSeq(arg[1].records, LAMBDA row :
                         tz_localize(DayOfCell(row[1])[1]) >= ClaimedStart(arg[1].period, arg[1].at))
       IN  /\ res[1].rows = chosen
           /\ res[1].status = IF chosen = <<>> THEN "no_period_data" ELSE "report"

\* analytics for November, asked on 02.11.2026: the row of 01.11.2026 is not
\* among the rows counted
C26_Witness ==
    /\ res # None
    /\ arg[1].period = Some("noyabr")
    /\ arg[1].records = GoodSheet
    /\ res[1].status = "report"
    /\ res[1].rows = <<GoodSheet[7]>>

\* C27: when the snapshot holds rows whose date or amount does not parse,
\* exactly those rows are left out, inflow, outflow, net, count and the sums by
\* category are those of the other rows, and analytics does not fail.
C27_BadRowsLeftOut ==
    res # None =>
       res[1] = show_analytics_report_numericOnly(arg[1].records, arg[1].period, arg[1].at)

\* a row of the period holds text for its amount: analytics ended in its error
\* reply
C27_Witness ==
    /\ res # None
    /\ arg[1].records = Append(GoodSheet, BadAmountRow)
    /\ arg[1].period = Some("nedelya")
    /\ res[1].status = "error"

-----------------------------------------------------------------------------
(* C28 *)

\* a valid record: a listed category, an amount whose sign is that of the kind
\* of operation
ValidRecord(row) ==
    /\ row[3] \in CATEGORIES
    /\ row[2] = "Popolnenie" => row[5] >= 0
    /\ row[2] = "Rashod" => row[5] <= 0

\* C28: every row the program appends to the sheet is a valid record: its
\* category is one of the 13 listed or "-", and its amount is not negative for an
\* inflow and not positive for an outflow, whatever finance object the NLU
\* capability returned.
C28_EveryRowValid ==
    Serving =>
       \A a \in {b \in NluAnswers \cup BadAnswers \cup OddAnswers : Has(b, "type")} :
          LET r == Classify(State, TxtPayment, a, "u1", "none")
          IN  Len(r.s.led) > Len(ledger) => ValidRecord(r.s.led[Len(r.s.led)])

\* a row of the category "Eda" was written and reported as recorded
C28_Witness ==
    /\ out.reply = "recorded"
    /\ Len(ledger) >= 2
    /\ ledger[Len(ledger)][3] = "Eda"
    /\ ~ValidRecord(ledger[Len(ledger)])

-----------------------------------------------------------------------------
(* C29, C30 *)

Without(led, row_number) == SubSeq(led, 1, row_number - 1) \o SubSeq(led, row_number + 1, Len(led))

\* C29: a successful delete_finance_record(row_index) removes exactly one row of
\* the sheet, invalidates the cache, and leaves every user's last operation
\* (its stored row number too) and every user's context list as they were.
C29_DeleteTouchesOneRowOnly ==
    Serving =>
       \A row_number \in 1..Len(ledger) :
          \A f \in {"none", "delete_rows"} :
             LET deleted == delete_finance_record(State, row_number, f)
             IN  deleted.ok => /\ deleted.s.led = Without(ledger, row_number)
                               /\ Len(deleted.s.led) = Len(ledger) - 1
                               /\ deleted.s.cache = None
                               /\ deleted.s.ts = None
                               /\ deleted.s.last = USER_LAST_OPERATIONS
                               /\ deleted.s.ctx = USER_CONTEXT
                               /\ deleted.s.file = contextFile

\* u1's record was committed as the second data row and deleted: the stored row
\* number and the context line are still there, the cache is invalidated
C29_Witness ==
    /\ out.reply = "deleted"
    /\ ledger = <<HEADER, OldRow>>
    /\ SHEETS_CACHE = None
    /\ "u1" \in DOMAIN USER_LAST_OPERATIONS
    /\ USER_LAST_OPERATIONS["u1"].row = 2
    /\ "u2" \notin DOMAIN USER_LAST_OPERATIONS
    /\ Len(USER_CONTEXT["u1"]) = 1

\* the row of the sheet a stored last operation points to, when the sheet still
\* holds the record there
PointsAt(user_id) ==
    LET op == USER_LAST_OPERATIONS[user_id]
    IN  IF op.row + 1 <= Len(ledger) /\ ledger[op.row + 1] = RowOf(op.data)
        THEN Some(op.row + 1) ELSE None

\* C30: delete-last asked by a user removes the record that user's last
\* operation points to, the user's own latest record, also when another user
\* has committed a record after it.
C30_DeleteLastIsOwnRecord ==
    Serving =>
       \A user_id \in DOMAIN USER_LAST_OPERATIONS :
          LET r == handle_callback_query(State, user_id, "quick_delete", "none")
          IN  (PointsAt(user_id) # None /\ r.reply = "deleted")
                 => r.s.led = Without(ledger, PointsAt(user_id)[1])

\* u1 committed, u2 committed after it, u1 asked to delete the last operation:
\* u2's record is gone and u1's is still in the sheet
C30_Witness ==
    /\ out.reply = "deleted"
    /\ ledger = <<HEADER, OldRow, RowOf(FinSalary)>>
    /\ DOMAIN USER_LAST_OPERATIONS = {"u1", "u2"}
    /\ USER_LAST_OPERATIONS["u1"].row = 2
    /\ USER_LAST_OPERATIONS["u2"].row = 3

-----------------------------------------------------------------------------
(* C31 *)

\* C31: after any sequence of appends, deletions of the last operation and
\* clearings, on a sheet that began with its header row, row 1 of the sheet is
\* still the header row; deleting the last operation of a sheet that holds no
\* data row deletes nothing of it.
C31_HeaderStays ==
    /\ Len(ledger) >= 1
    /\ ledger[1] = HEADER
    /\ Serving => LET r == handle_callback_query(State, "u1", "quick_delete", "none")
                  IN  Len(r.s.led) >= 1 /\ r.s.led[1] = HEADER

\* the last operation was reported as deleted and the sheet has no row at all
C31_Witness ==
    /\ out.reply = "deleted"
    /\ ledger = <<>>
    /\ SHEETS_CACHE = None

-----------------------------------------------------------------------------
(* C32 *)

\* C32: add_finance_record reports success exactly when the call appended one
\* row to the sheet; whenever it reports failure, and the user is told that the
\* write failed, the sheet holds no new row.
C32_FailureMeansNoRow ==
    Serving =>
       \A u \in ALLOWED_USERS, a \in Candidates, f \in WriteFaults :
          LET r == add_finance_record(State, a, u, f)
          IN  /\ r.ok <=> r.s.led = Append(ledger, RowOf(a))
              /\ ~r.ok => r.s.led = ledger
              /\ (~r.ok /\ Confident(a)) => Handle(u, a, f).reply = "write_failed"

\* the user was told the write failed, no add has ever reported success, and the
\* record is the last row of the sheet
C32_Witness ==
    /\ out.reply = "write_failed"
    /\ USER_LAST_OPERATIONS = EmptyStore
    /\ Len(ledger) > 1
    /\ ledger[Len(ledger)] = RowOf(FinSalary)

-----------------------------------------------------------------------------
(* C33 *)

\* the utterance resolves to a command of the router or to a clarification
ResolvesAside(text, answer, f) ==
    LET analysis == analyze_message_with_ai(text, answer, f).analysis
    IN  Has(analysis, "type") /\ analysis.type # "finance"

\* the ledger, the context lists, their file and the last operations of s are
\* those of the current state
SameRecords(s) ==
    /\ s.led = ledger
    /\ s.ctx = USER_CONTEXT
    /\ s.file = contextFile
    /\ s.last = USER_LAST_OPERATIONS

\* C33: handling an utterance, typed or spoken, that resolves to a command of the
\* router (recipients, suppliers, categories, analytics, search, history,
\* backup) or to a clarification leaves the sheet, every user's context list and
\* every user's last operation unchanged; only the cache snapshot and its
\* timestamp may change.
C33_CommandsAndClarificationsOnlyRead ==
    Serving =>
       \A u \in Users, text \in Texts, answer \in NluAnswers \cup {FinSupplier},
          f \in {"none", "nlu", "get_all_records"} :
          ResolvesAside(text, answer, f) =>
             /\ SameRecords(handle_message(State, u, text, answer, f).s)
             /\ SameRecords(handle_voice(State, u, text, answer, f).s)

\* a command was said after u1's record was committed and after the snapshot had
\* expired: the snapshot was fetched again, the record, its context line and the
\* last operation are there
C33_Witness ==
    /\ out.reply = "report"
    /\ out.nlu = 0
    /\ out.fetches = 1
    /\ CACHE_TIMESTAMP # None
    /\ CACHE_TIMESTAMP[1] > CACHE_TIMEOUT
    /\ ledger = <<HEADER, OldRow, RowOf(FinSalary)>>
    /\ "u1" \in DOMAIN USER_LAST_OPERATIONS
    /\ Len(USER_CONTEXT["u1"]) = 1

====
